---- MODULE Spec2Model ----
(***************************************************************************)
(* VeraLux Suite (verlux.js): the photometric stretch engine, the star     *)
(* pipeline and the star compositor, as a state machine over a heap of     *)
(* images.                                                                 *)
(*                                                                         *)
(* Real numbers are fixed point: the integer v stands for v / ONE.         *)
(* Math.asinh is tabulated (AsinhX / AsinhY) and interpolated linearly;    *)
(* Math.pow is computed for whole exponents.  The PixInsight primitives    *)
(* (convolve, morphology, Lab conversion) act on the pixel neighbourhood.  *)
(***************************************************************************)
EXTENDS Integers, Sequences, FiniteSets, TLC

VARIABLES
    pc,        \* position in the running operation
    op,        \* the public operation that was called
    heap,      \* the images that exist: heap[id] is image number id
    params,    \* the caller's params object
    sp,        \* the params object processVeraLux is running with
    img,       \* processVeraLux: id of its input image
    result,    \* id of the result image of the running function (0: none)
    anchor,    \* processVeraLux: var anchor
    starAnchor,\* processStarPipeline: var anchor
    y,         \* processVeraLux: row counter of the stretch loop
    argIds,    \* ids of the images the caller passed in
    orig,      \* the caller's images as they were at the call
    trace,     \* the stages that have run, in order
    stretched, \* the values handed to hyperbolicStretch by the mono/luminance path
    err,       \* "none", or the error the operation raised
    fn,        \* pure-function harness: the function under evaluation
    fnArgs,    \* pure-function harness: its arguments
    fnOut      \* pure-function harness: its results

vars == <<pc, op, heap, params, sp, img, result, anchor, starAnchor, y, argIds,
          orig, trace, stretched, err, fn, fnArgs, fnOut>>

pipeVars == <<pc, op, heap, params, sp, img, result, anchor, starAnchor, y, argIds,
              orig, trace, stretched, err>>

fnVars == <<fn, fnArgs, fnOut>>

-----------------------------------------------------------------------------
(* Fixed-point arithmetic *)

\* 1.0 as a sample value (32-bit real samples are kept to 1/4000)
ONE == 4000

\* a JavaScript undefined (a reserved code that is no sample value)
Undefined == 0 - 2147483647

\* a JavaScript NaN (a reserved code that is no sample value)
NaN == 0 - 2147483646

Max(a, b) == IF a >= b THEN a ELSE b

Min(a, b) == IF a <= b THEN a ELSE b

Abs(a) == IF a < 0 THEN 0 - a ELSE a

\* Math.max(0, Math.min(1, v))
Clamp01(v) == Max(0, Min(ONE, v))

\* a * b of two fixed-point numbers (split so that the product stays in range)
MulFP(a, b) == (a \div ONE) * b + ((a % ONE) * b + ONE \div 2) \div ONE

\* a / b of two fixed-point numbers, b # 0
DivFP(a, b) ==
    IF b > 0 THEN (a * ONE + b \div 2) \div b
    ELSE 0 - ((a * ONE + (0 - b) \div 2) \div (0 - b))

RECURSIVE ISqrtIter(_, _, _)
ISqrtIter(n, lo, hi) ==
    IF lo >= hi THEN lo
    ELSE LET mid == (lo + hi + 1) \div 2
         IN IF mid * mid <= n THEN ISqrtIter(n, mid, hi) ELSE ISqrtIter(n, lo, mid - 1)

\* Math.sqrt on a value in units of 1/ONE^2, result in units of 1/ONE
SqrtFP(n) == ISqrtIter(n, 0, 46340)

RECURSIVE RootPow(_, _, _)
\* x^f for 0 <= x <= 1 and 0 <= f < 1, from the binary digits of f:
\* x^f = sqrt(x)^(2f), n digits
RootPow(x, f, n) ==
    IF n = 0 \/ f = 0 THEN ONE
    ELSE IF 2 * f >= ONE
         THEN MulFP(SqrtFP(x * ONE), RootPow(SqrtFP(x * ONE), 2 * f - ONE, n - 1))
         ELSE RootPow(SqrtFP(x * ONE), 2 * f, n - 1)

RECURSIVE PowFP(_, _)
\* Math.pow(x, e) for a fixed-point x and an exponent e >= 0; a fractional part
\* of e is taken for x in [0,1]
PowFP(x, e) ==
    IF e <= 0 THEN ONE
    ELSE IF e < ONE THEN RootPow(x, e, 12)
    ELSE MulFP(x, PowFP(x, e - ONE))

RECURSIVE Pow10(_)
\* Math.pow(10, logD) for a whole logD (given as logD * ONE), negative ones included
Pow10(e) ==
    IF e < 0 THEN Pow10(e + ONE) \div 10
    ELSE IF e = 0 THEN ONE
    ELSE 10 * Pow10(e - ONE)

\* Math.asinh: arguments of the table
AsinhX == <<0, 200, 400, 600, 800, 1000, 1200, 1600, 2000, 2400, 2800, 3200, 3600,
            4000, 5000, 6000, 7000, 8000, 10000, 12000, 14000, 16000, 20000, 24000,
            28000, 32000, 40000, 48000, 56000, 64000, 80000, 96000, 112000, 128000,
            160000, 192000, 224000, 256000, 320000, 384000, 448000, 512000, 640000,
            768000, 896000, 1024000>>

\* Math.asinh: values of the table, round(asinh(x / ONE) * ONE)
AsinhY == <<0, 200, 399, 598, 795, 990, 1183, 1560, 1925, 2275, 2611, 2931, 3235,
            3525, 4190, 4779, 5304, 5775, 6589, 7274, 7863, 8379, 9250, 9967, 10576,
            11106, 11993, 12719, 13334, 13867, 14758, 15487, 16103, 16637, 17529,
            18258, 18874, 19408, 20301, 21030, 21647, 22181, 23073, 23803, 24419,
            24953>>

AsinhPos(x) ==
    IF x >= AsinhX[Len(AsinhX)] THEN AsinhY[Len(AsinhY)]
    ELSE LET i == CHOOSE k \in 1..(Len(AsinhX) - 1) : AsinhX[k] <= x /\ x < AsinhX[k + 1]
         IN AsinhY[i] + ((AsinhY[i + 1] - AsinhY[i]) * (x - AsinhX[i])) \div (AsinhX[i + 1] - AsinhX[i])

\* Math.asinh (odd function)
Asinh(x) == IF x >= 0 THEN AsinhPos(x) ELSE 0 - AsinhPos(0 - x)

-----------------------------------------------------------------------------
(* Sequences *)

RECURSIVE SeqSum(_)
SeqSum(s) == IF s = <<>> THEN 0 ELSE Head(s) + SeqSum(Tail(s))

RECURSIVE Insert(_, _)
Insert(v, s) ==
    IF s = <<>> THEN <<v>>
    ELSE IF v <= Head(s) THEN <<v>> \o s ELSE <<Head(s)>> \o Insert(v, Tail(s))

RECURSIVE SortAsc(_)
\* arr.sort(function(a, b) { return a - b; })
SortAsc(s) == IF s = <<>> THEN <<>> ELSE Insert(Head(s), SortAsc(Tail(s)))

SeqMin(s) == CHOOSE v \in {s[i] : i \in 1..Len(s)} : \A j \in 1..Len(s) : v <= s[j]

\* arr[i] of a JavaScript array (0-based): undefined outside the array
JsIndex(s, i) == IF i >= 0 /\ i < Len(s) THEN s[i + 1] ELSE Undefined

-----------------------------------------------------------------------------
(* Images: [w, h, nc, px], px the pixels in row-major order, each a sequence *)
(* of nc samples.                                                            *)

\* new Image(w, h, nc, ...): a blank image
BlankImage(w, h, nc) ==
    [w |-> w, h |-> h, nc |-> nc, px |-> [i \in 1..(w * h) |-> [c \in 1..nc |-> 0]]]

\* img.sample(x, y, c) for a channel the image has
Sample(im, x, yy, c) == im.px[yy * im.w + x + 1][c + 1]

\* no subsampling: every pixel is visited
StrideStepOne(totalPixels, budget) == 1

\* var step = Math.max(1, Math.floor(totalPixels / budget))
StrideStep(totalPixels, budget) == Max(1, totalPixels \div budget)

\* the number of iterations of for (i = 0; i < totalPixels; i += step)
StrideVisits(totalPixels, budget) ==
    (totalPixels + StrideStep(totalPixels, budget) - 1) \div StrideStep(totalPixels, budget)

\* the flattened indices 0, step, 2*step, ... below totalPixels
StridedIndices(totalPixels, budget) ==
    [k \in 1..StrideVisits(totalPixels, budget) |->
        (k - 1) * StrideStep(totalPixels, budget)]

\* the samples of channel c at the strided indices
ChannelSamples(im, c, budget) ==
    LET idx == StridedIndices(im.w * im.h, budget)
    IN [k \in 1..Len(idx) |-> Sample(im, idx[k] % im.w, idx[k] \div im.w, c)]

\* weights[0]*R + weights[1]*G + weights[2]*B of one pixel (the sample itself for mono)
Luma(pixel, weights) ==
    IF Len(pixel) = 3
    THEN MulFP(weights[1], pixel[1]) + MulFP(weights[2], pixel[2]) + MulFP(weights[3], pixel[3])
    ELSE pixel[1]

\* the luminance samples at the strided indices
LumaSamples(im, weights, budget) ==
    LET idx == StridedIndices(im.w * im.h, budget)
    IN [k \in 1..Len(idx) |-> Luma(im.px[idx[k] + 1], weights)]

-----------------------------------------------------------------------------
(* VeraLuxCore: statistics.  p is given in hundredths of a percent.          *)

\* a * (1 - weight) + b * weight, weight = frac / 10000; NaN when a or b is undefined
Blend(a, b, frac) ==
    IF a = Undefined \/ b = Undefined THEN NaN
    ELSE (a * (10000 - frac) + b * frac + 5000) \div 10000

\* lines 167-172 of percentile, on the sorted array
Interpolate(sorted, p) ==
    LET n == Len(sorted)
        num == p * (n - 1)
        lower == num \div 10000
        frac == num % 10000
        upper == IF frac = 0 THEN lower ELSE lower + 1
    IN IF upper >= n THEN JsIndex(sorted, n - 1)
       ELSE Blend(JsIndex(sorted, lower), JsIndex(sorted, upper), frac)

\* VeraLuxCore.percentile (Suite)
percentile(arr, p) == IF Len(arr) = 0 THEN 0 ELSE Interpolate(SortAsc(arr), p)

\* VeraLuxCore.percentile (standalone): no guard for an empty array
percentileStandalone(arr, p) == Interpolate(SortAsc(arr), p)

StatsBudget == 500000

AdaptiveBudget == 2000000

\* the safety margin 0.00025
AnchorMargin == 1

\* calculateAnchorStats without the safety margin
calculateAnchorStatsNoMargin(im, isRGB) ==
    IF isRGB
    THEN LET floors == [c \in 1..3 |-> percentile(ChannelSamples(im, c - 1, StatsBudget), 50)]
         IN Max(0, SeqMin(floors))
    ELSE Max(0, percentile(ChannelSamples(im, 0, StatsBudget), 50))

\* VeraLuxCore.calculateAnchorStats
calculateAnchorStats(im, isRGB) ==
    IF isRGB
    THEN LET floors == [c \in 1..3 |-> percentile(ChannelSamples(im, c - 1, StatsBudget), 50)]
         IN Max(0, SeqMin(floors) - AnchorMargin)
    ELSE Max(0, percentile(ChannelSamples(im, 0, StatsBudget), 50) - AnchorMargin)

numBins == 65536

windowSize == 50

PeakStart == 100

\* hist[k-50] + ... + hist[k+50] for the bins of the samples
WindowSum(bins, k) ==
    Cardinality({j \in DOMAIN bins :
        bins[j] >= 0 /\ bins[j] < numBins /\ bins[j] >= k - windowSize /\ bins[j] <= k + windowSize})

\* the number of bins of the window around k that exist
WindowCount(k) == Min(k + windowSize, numBins - 1) - Max(k - windowSize, 0) + 1

\* smoothed[j] < smoothed[k]
SmoothedLess(bins, j, k) ==
    WindowSum(bins, j) * WindowCount(k) < WindowSum(bins, k) * WindowCount(j)

\* the first bin from PeakStart on with the largest smoothed count (0 when all are 0);
\* smoothed only changes where a sample enters or leaves the window or the window is cut
peakIdx(bins) ==
    LET cands == ({PeakStart} \cup {bins[j] - windowSize : j \in DOMAIN bins}
                  \cup {bins[j] + windowSize + 1 : j \in DOMAIN bins}
                  \cup ((numBins - 1 - windowSize)..(numBins - 1)))
                 \cap (PeakStart..(numBins - 1))
        hit == {k \in cands : WindowSum(bins, k) > 0}
    IN IF hit = {} THEN 0
       ELSE CHOOSE k \in hit : \A j \in hit :
                IF j < k THEN SmoothedLess(bins, j, k) ELSE ~SmoothedLess(bins, k, j)

\* the walk back from the peak to the first bin below 6% of the peak (0 when none)
anchorIdx(bins) ==
    LET pk == peakIdx(bins)
        cands == ({pk} \cup {bins[j] - windowSize - 1 : j \in DOMAIN bins}
                  \cup {bins[j] + windowSize : j \in DOMAIN bins}
                  \cup (0..windowSize))
                 \cap (0..pk)
        below == {k \in cands :
                    100 * WindowSum(bins, k) * WindowCount(pk)
                        < 6 * WindowSum(bins, pk) * WindowCount(k)}
    IN IF below = {} THEN 0 ELSE CHOOSE k \in below : \A j \in below : j <= k

\* calculateAnchorAdaptive, lines 207-216: the luminance samples
AdaptiveSamples(im, weights) == LumaSamples(im, weights, AdaptiveBudget)

\* var bin = Math.floor(samples[j] * (numBins - 1)), for every sample
HistBins(samples) == [j \in DOMAIN samples |-> (samples[j] * (numBins - 1)) \div ONE]

\* calculateAnchorAdaptive with the median as the fallback
calculateAnchorAdaptiveMedian(im, weights) ==
    LET samples == AdaptiveSamples(im, weights)
        idx == anchorIdx(HistBins(samples))
        a == IF idx <= 0 THEN percentile(samples, 5000)
             ELSE (idx * ONE + (numBins - 1) \div 2) \div (numBins - 1)
    IN Max(0, a)

\* VeraLuxCore.calculateAnchorAdaptive
calculateAnchorAdaptive(im, weights) ==
    LET samples == AdaptiveSamples(im, weights)
        idx == anchorIdx(HistBins(samples))
        a == IF idx <= 0 THEN percentile(samples, 50)
             ELSE (idx * ONE + (numBins - 1) \div 2) \div (numBins - 1)
    IN Max(0, a)

-----------------------------------------------------------------------------
(* VeraLuxCore: the stretch transform *)

\* 0.1, the floor of D and b
MinDB == ONE \div 10

\* hyperbolicStretch without the floor of D at 0.1
hyperbolicStretchNoFloor(value, D, b, SP) ==
    LET b1 == Max(b, MinDB)
        SP1 == IF SP = Undefined THEN 0 ELSE SP
        term1 == Asinh(MulFP(D, value - SP1) + b1)
        term2 == Asinh(b1)
        norm == Asinh(MulFP(D, ONE - SP1) + b1) - term2
    IN IF norm = 0 THEN (term1 - term2) * 1000000 ELSE DivFP(term1 - term2, norm)

\* VeraLuxCore.hyperbolicStretch
hyperbolicStretch(value, D, b, SP) ==
    LET D1 == Max(D, MinDB)
        b1 == Max(b, MinDB)
        SP1 == IF SP = Undefined THEN 0 ELSE SP
        term1 == Asinh(MulFP(D1, value - SP1) + b1)
        term2 == Asinh(b1)
        norm == Asinh(MulFP(D1, ONE - SP1) + b1) - term2
    IN IF norm = 0 THEN (term1 - term2) * 1000000 ELSE DivFP(term1 - term2, norm)

\* VeraLuxCore.applyMTF
applyMTF(value, m) ==
    IF value <= 0 THEN 0
    ELSE IF value >= ONE THEN ONE
    ELSE LET term1 == MulFP(m - ONE, value)
             term2 == MulFP(2 * m - ONE, value) - m
         IN IF term2 = 0 THEN value ELSE Clamp01(DivFP(term1, term2))

-----------------------------------------------------------------------------
(* The params object: a field that was not set is not in its domain. *)

\* params.name, or dflt when params.name is undefined
Field(p, name, dflt) == IF name \in DOMAIN p THEN p[name] ELSE dflt

\* params.addPedestal !== false
AddPedestal(p) == Field(p, "addPedestal", TRUE)

\* a truthiness test in place of the comparison with "ready_to_use"
IsReadyToUseTruthy(p) == "processingMode" \in DOMAIN p

\* params.processingMode === "ready_to_use"
IsReadyToUse(p) == Field(p, "processingMode", "") = "ready_to_use"

\* if (params.adaptive)
IsAdaptive(p) == Field(p, "adaptive", FALSE)

-----------------------------------------------------------------------------
(* processVeraLux: one pixel of the stretch loop *)

\* var pedestal = 0.005
pedestal == ONE \div 200

\* the 0.01 that shadowConvergence must exceed
ShadowMin == ONE \div 100

\* Math.max(0, img.sample(x, y, c) - anchor), per channel
AnchorSubtract(pixel, a) == [c \in 1..Len(pixel) |-> Max(0, pixel[c] - a)]

\* the value written for one channel with the final clamp left out
EmitUnclamped(v, p) == IF AddPedestal(p) THEN MulFP(v, ONE - pedestal) + pedestal ELSE v

\* the value written for one channel: pedestal lift if enabled, then the clamp
Emit(v, p) == Clamp01(IF AddPedestal(p) THEN MulFP(v, ONE - pedestal) + pedestal ELSE v)

\* Lstr, clamped to [0,1]
LstrOf(pre, p) ==
    Clamp01(hyperbolicStretch(Luma(pre, p.weights), Pow10(p.logD), p.protectB, 0))

\* the vector result with each channel scaled by its luminance weight
VectorRGBWeighted(pre, p, Lstr) ==
    [c \in 1..3 |-> MulFP(MulFP(3 * p.weights[c], pre[c]), Lstr)]

\* Vector Logic: rFinal, gFinal, bFinal before the blend
VectorRGB(pre, p, Lstr) ==
    LET L == Luma(pre, p.weights)
        k == PowFP(Lstr, p.convergence)
    IN [c \in 1..3 |->
          IF Lstr = 0 THEN 0
          ELSE MulFP(MulFP(DivFP(pre[c], L), ONE - k) + k, Lstr)]

\* rScal, gScal, bScal
ScalarRGB(pre, p) ==
    [c \in 1..3 |-> Clamp01(hyperbolicStretch(pre[c], Pow10(p.logD), p.protectB, 0))]

\* if ((colorGrip < 1.0) || (shadowConvergence > 0.01))
IsHybrid(colorGrip, shadowConvergence) ==
    colorGrip < ONE \/ shadowConvergence > ShadowMin

\* the grip damped for every positive shadowConvergence
CurrentGripAnyPositive(colorGrip, shadowConvergence, Lstr) ==
    IF shadowConvergence > 0
    THEN MulFP(colorGrip, PowFP(Lstr, shadowConvergence))
    ELSE colorGrip

\* var currentGrip = colorGrip;
\* if (shadowConvergence > 0.01) currentGrip = currentGrip * Math.pow(Lstr, shadowConvergence)
CurrentGrip(colorGrip, shadowConvergence, Lstr) ==
    IF shadowConvergence > ShadowMin
    THEN MulFP(colorGrip, PowFP(Lstr, shadowConvergence))
    ELSE colorGrip

\* rFinal, gFinal, bFinal after the Hybrid Logic
FinalRGB(pre, p) ==
    LET colorGrip == Field(p, "colorGrip", ONE)
        shadowConvergence == Field(p, "shadowConvergence", 0)
        Lstr == LstrOf(pre, p)
        vec == VectorRGB(pre, p, Lstr)
        scal == ScalarRGB(pre, p)
        currentGrip == CurrentGrip(colorGrip, shadowConvergence, Lstr)
    IN [c \in 1..3 |->
          IF IsHybrid(colorGrip, shadowConvergence)
          THEN MulFP(vec[c], currentGrip) + MulFP(scal[c], ONE - currentGrip)
          ELSE vec[c]]

\* the RGB branch of the loop body, on the anchor-subtracted pixel
StretchRGB(pre, p) ==
    LET final == FinalRGB(pre, p)
    IN [c \in 1..3 |-> Emit(final[c], p)]

\* the mono branch of the loop body, on the anchor-subtracted pixel
StretchMono(pre, p) ==
    <<Emit(hyperbolicStretch(pre[1], Pow10(p.logD), p.protectB, 0), p)>>

\* the loop body for one pixel
StretchPixel(pixel, a, p) ==
    IF Len(pixel) = 3 THEN StretchRGB(AnchorSubtract(pixel, a), p)
    ELSE StretchMono(AnchorSubtract(pixel, a), p)

-----------------------------------------------------------------------------
(* Post-stretch stages, on the pixels of an image *)

\* var PEDESTAL = 0.001
PEDESTAL == ONE \div 1000

\* the 1e-6 by which a ceiling is nudged: the smallest positive sample step
Nudge == 1

\* the contrast target 0.98
ContrastTarget == (98 * ONE) \div 100

\* applyAdaptiveScaling, lines 397-404: globalFloor from the luminance samples
GlobalFloor(luma, median) ==
    LET n == Len(luma)
        mean == SeqSum(luma) \div n
        stdDev == SqrtFP(SeqSum([k \in 1..n |-> (luma[k] - mean) * (luma[k] - mean)]) \div n)
    IN Max(Min(ONE, SeqMin(luma)), median - (27 * stdDev) \div 10)

\* applyAdaptiveScaling, lines 408-409: a ceiling, nudged above what lies below it
Ceiling(ceil, below) == IF ceil <= below THEN below + Nudge ELSE ceil

\* the scale of the hard safety alone
FinalScaleSafetyOnly(globalFloor, softCeil, hardCeil) ==
    DivFP(ONE - PEDESTAL, hardCeil - globalFloor)

\* applyAdaptiveScaling, line 412
FinalScale(globalFloor, softCeil, hardCeil) ==
    Min(DivFP(ContrastTarget - PEDESTAL, softCeil - globalFloor),
        DivFP(ONE - PEDESTAL, hardCeil - globalFloor))

\* applyAdaptiveScaling, lines 408-412: the ceilings as used, and the scale
StatsFrom(globalFloor, soft, hard) ==
    LET softCeil == Ceiling(soft, globalFloor)
        hardCeil == Ceiling(hard, softCeil)
    IN [globalFloor |-> globalFloor, softCeil |-> softCeil, hardCeil |-> hardCeil,
        finalScale |-> FinalScale(globalFloor, softCeil, hardCeil)]

\* applyAdaptiveScaling, lines 406-407: softCeil and hardCeil as first computed
RawCeilings(luma) == [soft |-> percentile(luma, 9900), hard |-> percentile(luma, 9999)]

\* applyAdaptiveScaling, lines 390-412: floor, ceilings and scale
StatsOf(luma, globalFloor) ==
    StatsFrom(globalFloor, RawCeilings(luma).soft, RawCeilings(luma).hard)

ScalingStats(im, weights) ==
    LET luma == LumaSamples(im, weights, StatsBudget)
    IN StatsOf(luma, GlobalFloor(luma, percentile(luma, 5000)))

\* applyAdaptiveScaling, line 419: (val - globalFloor) * finalScale + PEDESTAL
ExpandSample(val, st) == MulFP(st.finalScale, val - st.globalFloor) + PEDESTAL

\* applyAdaptiveScaling, lines 414-423: the linear expansion of every sample
Expand(im, st) ==
    [i \in 1..Len(im.px) |-> [c \in 1..im.nc |-> Clamp01(ExpandSample(im.px[i][c], st))]]

\* applyAdaptiveScaling, line 435: the denominator of m
SolveMDenominator(currentBg, targetBg) == MulFP(currentBg, 2 * targetBg - ONE) - targetBg

\* m with the numerator's sign turned
SolveMSignTurned(currentBg, targetBg) ==
    DivFP(MulFP(currentBg, ONE - targetBg), SolveMDenominator(currentBg, targetBg))

\* applyAdaptiveScaling, line 435: the midtones balance that moves currentBg to targetBg
SolveM(currentBg, targetBg) ==
    DivFP(MulFP(currentBg, targetBg - ONE), SolveMDenominator(currentBg, targetBg))

\* applyAdaptiveScaling, lines 433-443: the MTF shift of the expanded pixels
Retarget(px, currentBg, targetBg) ==
    IF currentBg > 0 /\ currentBg < ONE /\ Abs(currentBg - targetBg) > PEDESTAL
    THEN [i \in 1..Len(px) |-> [c \in 1..Len(px[i]) |->
            applyMTF(px[i][c], SolveM(currentBg, targetBg))]]
    ELSE px

\* the sampled median luminance of an image
MedianLuma(im, weights) == percentile(LumaSamples(im, weights, StatsBudget), 5000)

\* applyAdaptiveScaling: the pixels of its result
AdaptiveScalingPx(im, weights, targetBg) ==
    LET expanded == [im EXCEPT !.px = Expand(im, ScalingStats(im, weights))]
    IN Retarget(expanded.px, MedianLuma(expanded, weights), targetBg)

\* a sample above the threshold mirrored at it instead of rolled off
SoftClipSampleHard(val, threshold, rolloff) ==
    Clamp01(IF val > threshold THEN 2 * threshold - val ELSE val)

\* applySoftClip: one sample
SoftClipSample(val, threshold, rolloff) ==
    LET t == DivFP(val - threshold, ONE - threshold)
        rolled == threshold + MulFP(ONE - threshold, ONE - PowFP(ONE - Clamp01(t), rolloff))
    IN Clamp01(IF val > threshold THEN rolled ELSE val)

\* applySoftClip: the pixels of its result
SoftClipPx(im, threshold, rolloff) ==
    [i \in 1..Len(im.px) |-> [c \in 1..im.nc |-> SoftClipSample(im.px[i][c], threshold, rolloff)]]

\* the pixels within `radius` of pixel i (a disc or a square around it)
Neighbours(im, i, radius, disc) ==
    {j \in 1..Len(im.px) :
        LET dx == ((j - 1) % im.w) - ((i - 1) % im.w)
            dy == ((j - 1) \div im.w) - ((i - 1) \div im.w)
        IN /\ Abs(dx) <= radius /\ Abs(dy) <= radius
           /\ (disc => dx * dx + dy * dy <= radius * radius)}

RECURSIVE SetSum(_, _)
SetSum(S, f) == IF S = {} THEN 0 ELSE LET e == CHOOSE e \in S : TRUE IN f[e] + SetSum(S \ {e}, f)

\* Image.convolve with a normalised kernel of size kSize, on the channels in chans:
\* the mean over the kernel's footprint
ConvolvePx(im, kSize, chans) ==
    [i \in 1..Len(im.px) |-> [c \in 1..im.nc |->
        IF c \in chans
        THEN LET nb == Neighbours(im, i, (kSize - 1) \div 2, FALSE)
             IN SetSum(nb, [j \in nb |-> im.px[j][c]]) \div Cardinality(nb)
        ELSE im.px[i][c]]]

\* Image.morphology(MorphOp_Erosion, disc of size kSize): the minimum over the disc
ErosionPx(im, kSize) ==
    [i \in 1..Len(im.px) |-> [c \in 1..im.nc |->
        LET nb == Neighbours(im, i, kSize \div 2, TRUE)
        IN CHOOSE v \in {im.px[j][c] : j \in nb} : \A j \in nb : v <= im.px[j][c]]]

\* Image.convert(ColorSpace_Lab): lightness and two chroma channels
ToLabPx(im) ==
    [i \in 1..Len(im.px) |->
        IF im.nc = 3
        THEN LET l == (im.px[i][1] + im.px[i][2] + im.px[i][3]) \div 3
             IN <<l, im.px[i][1] - l, im.px[i][3] - l>>
        ELSE im.px[i]]

\* Image.convert(ColorSpace_RGB), the inverse of ToLabPx
ToRGBPx(im) ==
    [i \in 1..Len(im.px) |->
        IF im.nc = 3
        THEN LET l == im.px[i][1] a == im.px[i][2] b == im.px[i][3]
             IN <<l + a, l - a - b, l + b>>
        ELSE im.px[i]]

\* the kernel size of applyLSR
LsrKernelSize(im) ==
    LET k0 == Min(im.h, im.w) \div 15
        k1 == IF k0 % 2 = 0 THEN k0 + 1 ELSE k0
    IN Min(127, Max(3, k1))

\* the kernel size of applyOpticalHealing
HealingKernelSize(strength) ==
    LET k0 == (2 * strength) \div ONE + 1
    IN IF k0 % 2 = 0 THEN k0 + 1 ELSE k0

\* the blend with the two modes exchanged
ComposeSampleSwapped(s, b, useScreen) ==
    Clamp01(IF useScreen THEN b + s ELSE ONE - MulFP(ONE - b, ONE - s))

\* the blend with the clamp to [0,1] left out
ComposeSampleUnclamped(s, b, useScreen) ==
    IF useScreen THEN ONE - MulFP(ONE - b, ONE - s) ELSE b + s

\* composeStarImages: one sample
ComposeSample(s, b, useScreen) ==
    Clamp01(IF useScreen THEN ONE - MulFP(ONE - b, ONE - s) ELSE b + s)

-----------------------------------------------------------------------------
(* The heap of images.  Every function below returns <<heap, id>>: the heap *)
(* after the call and the id of the image it returns.                       *)

\* new Image(w, h, nc, colorSpace, 32, SampleType_Real)
ImageNew(h, w, hh, nc) == <<Append(h, BlankImage(w, hh, nc)), Len(h) + 1>>

\* an alias of image id in place of a copy
ImageCopyAlias(h, id) == <<h, id>>

\* new Image(img): a copy of image id
ImageCopy(h, id) == <<Append(h, h[id]), Len(h) + 1>>

\* the setSample calls (or an in-place library call) that leave px in image id
SetPixels(h, id, px) == [h EXCEPT ![id].px = px]

applyAdaptiveScaling(h, id, weights, targetBg) ==
    LET r == ImageNew(h, h[id].w, h[id].h, h[id].nc)
    IN <<SetPixels(r[1], r[2], AdaptiveScalingPx(r[1][id], weights, targetBg)), r[2]>>

applySoftClip(h, id, threshold, rolloff) ==
    LET r == ImageNew(h, h[id].w, h[id].h, h[id].nc)
    IN <<SetPixels(r[1], r[2], SoftClipPx(r[1][id], threshold, rolloff)), r[2]>>

\* Image.rescale(f), in place
Rescale(h, id, f) ==
    SetPixels(h, id, [i \in 1..Len(h[id].px) |-> [c \in 1..h[id].nc |-> MulFP(h[id].px[i][c], f)]])

\* Image.apply(other, ImageOp_Add), in place
AddImage(h, id, other) ==
    SetPixels(h, id, [i \in 1..Len(h[id].px) |-> [c \in 1..h[id].nc |->
        h[id].px[i][c] + h[other].px[i][c]]])

\* Image.apply(other, ImageOp_Sub) and Image.truncate(0, 1), in place
SubTruncate(h, id, other) ==
    SetPixels(h, id, [i \in 1..Len(h[id].px) |-> [c \in 1..h[id].nc |->
        Clamp01(h[id].px[i][c] - h[other].px[i][c])]])

\* Image.convolve(kernel), in place
Convolve(h, id, kSize, chans) == SetPixels(h, id, ConvolvePx(h[id], kSize, chans))

\* applyLSR, lines 368-369: var lowPass
LsrLowPass(h, id) ==
    LET lp == ImageCopy(h, id)
    IN <<Convolve(lp[1], lp[2], LsrKernelSize(h[id]), 1..h[id].nc), lp[2]>>

\* applyLSR, lines 371-373: var highPass
LsrHighPass(h, id, lowPass) ==
    LET hp == ImageCopy(h, id) IN <<SubTruncate(hp[1], hp[2], lowPass), hp[2]>>

\* applyLSR, lines 375-382: var result
LsrBlend(h, id, highPass, intensity) ==
    LET rs == ImageCopy(h, id)
    IN <<AddImage(Rescale(Rescale(rs[1], rs[2], ONE - intensity), highPass, intensity),
                  rs[2], highPass), rs[2]>>

LsrFromLowPass(lp, id, intensity) ==
    LET hp == LsrHighPass(lp[1], id, lp[2]) IN LsrBlend(hp[1], id, hp[2], intensity)

applyLSR(h, id, intensity) ==
    IF intensity <= 0 THEN <<h, id>> ELSE LsrFromLowPass(LsrLowPass(h, id), id, intensity)

\* workImg.convert(ColorSpace_Lab), in place
ConvertLab(h, id) == SetPixels(h, id, ToLabPx(h[id]))

\* workImg.convert(ColorSpace_RGB), in place
ConvertRGB(h, id) == SetPixels(h, id, ToRGBPx(h[id]))

\* applyOpticalHealing, lines 315-326, on the working copy
HealInPlace(h, id, kSize) ==
    ConvertRGB(Convolve(Convolve(ConvertLab(h, id), id, kSize, {2}), id, kSize, {3}), id)

applyOpticalHealing(h, id, strength) ==
    IF strength <= 0 THEN <<h, id>>
    ELSE LET wk == ImageCopy(h, id)
         IN <<HealInPlace(wk[1], wk[2], HealingKernelSize(strength)), wk[2]>>

\* eroded.morphology(MorphOp_Erosion, strElem), in place
Erode(h, id, kSize) == SetPixels(h, id, ErosionPx(h[id], kSize))

\* applyStarReduction, lines 341-342: var eroded
ReductionEroded(h, id, kSize) ==
    LET er == ImageCopy(h, id) IN <<Erode(er[1], er[2], kSize), er[2]>>

\* applyStarReduction, lines 345-357: var result
ReductionBlend(h, id, eroded, intensity) ==
    LET rs == ImageCopy(h, id)
    IN <<SetPixels(rs[1], rs[2],
            [i \in 1..Len(h[id].px) |-> [c \in 1..h[id].nc |->
                MulFP(rs[1][id].px[i][c], ONE - intensity)
                  + MulFP(rs[1][eroded].px[i][c], intensity)]]), rs[2]>>

ReductionFromEroded(er, id, intensity) == ReductionBlend(er[1], id, er[2], intensity)

applyStarReduction(h, id, intensity) ==
    IF intensity <= 0 THEN <<h, id>>
    ELSE ReductionFromEroded(ReductionEroded(h, id, IF intensity < ONE \div 2 THEN 3 ELSE 5),
                             id, intensity)

\* the first time an image is handed to an operation, it is recorded as it was
Snap(o, h, id) == IF id \in DOMAIN o THEN o ELSE o @@ (id :> h[id])

-----------------------------------------------------------------------------
(* Inputs *)

\* the largest number of pixels of an input image
MaxPix == 2

Dims == {d \in (1..MaxPix) \X (1..MaxPix) : d[1] * d[2] <= MaxPix}

\* mono samples: black, quarter grey, mid grey, above the nominal range
MonoPalette == {<<0>>, <<ONE \div 4>>, <<ONE \div 2>>, <<(5 * ONE) \div 4>>}

\* RGB pixels: black, a coloured mid-tone, one with samples outside [0,1]
RgbPalette == {<<0, 0, 0>>, <<ONE \div 2, ONE \div 4, (3 * ONE) \div 4>>,
               <<0 - ONE \div 4, (5 * ONE) \div 4, ONE>>}

ImagesOf(palette, nc) ==
    UNION {{[w |-> d[1], h |-> d[2], nc |-> nc, px |-> f] :
                f \in [1..(d[1] * d[2]) -> palette]} : d \in Dims}

Images == ImagesOf(MonoPalette, 1) \cup ImagesOf(RgbPalette, 3)

\* SENSOR_PROFILES["Rec.709 (Recommended)"].weights
Rec709 == <<850, 2861, 289>>

\* params objects without addPedestal (it then defaults to true) ...
ParamsUnsetPedestal(logDs, shadows) ==
    [weights : {Rec709}, logD : logDs, protectB : {6 * ONE}, convergence : {3 * ONE},
     colorGrip : {ONE, ONE \div 2}, shadowConvergence : shadows, adaptive : BOOLEAN,
     processingMode : {"scientific", "ready_to_use"}, targetBg : {ONE \div 5}]

\* ... and with addPedestal: false
StretchParams(logDs, shadows) ==
    ParamsUnsetPedestal(logDs, shadows)
      \cup {q @@ [addPedestal |-> FALSE] : q \in ParamsUnsetPedestal(logDs, shadows)}

MainParams == StretchParams({0, 2 * ONE}, {0, ONE})

\* the star pipeline's params: the stretch fields plus lsr, healing, reduction
StarParams ==
    {q @@ [lsr |-> l, healing |-> hl, reduction |-> rd] :
        q \in StretchParams({2 * ONE}, {0}),
        l \in {0, ONE \div 2}, hl \in {0, ONE}, rd \in {0, ONE \div 2}}

\* what a read of a channel the image does not have may return
StraySamples == {0, 2 * ONE}

-----------------------------------------------------------------------------
(* The state machine *)

InitPipe ==
    /\ pc = "idle" /\ op = "none" /\ heap = <<>> /\ params = <<>> /\ sp = <<>>
    /\ img = 0 /\ result = 0 /\ anchor = 0 /\ starAnchor = 0 /\ y = 0
    /\ argIds = {} /\ orig = <<>> /\ trace = <<>> /\ stretched = <<>> /\ err = "none"

InitFn == fn = "none" /\ fnArgs = <<>> /\ fnOut = <<>>

Init == InitPipe /\ InitFn

\* a caller invokes processVeraLux(img, params)
CallProcessVeraLux ==
    /\ pc = "idle"
    /\ \E im \in Images, p \in MainParams :
          /\ heap' = <<im>> /\ params' = p /\ sp' = p
          /\ orig' = Snap(orig, <<im>>, 1)
    /\ op' = "processVeraLux" /\ img' = 1 /\ argIds' = {1} /\ pc' = "pv_anchor"
    /\ UNCHANGED <<result, anchor, starAnchor, y, trace, stretched, err>>
    /\ UNCHANGED fnVars

\* processVeraLux, lines 497-521: the anchor and the blank result image
PV_Anchor ==
    /\ pc = "pv_anchor"
    /\ anchor' = IF IsAdaptive(sp) THEN calculateAnchorAdaptive(heap[img], sp.weights)
                 ELSE calculateAnchorStats(heap[img], heap[img].nc = 3)
    /\ trace' = Append(trace, IF IsAdaptive(sp) THEN "calculateAnchorAdaptive"
                              ELSE "calculateAnchorStats")
    /\ LET r == ImageNew(heap, heap[img].w, heap[img].h, heap[img].nc)
       IN heap' = r[1] /\ result' = r[2]
    /\ y' = 0 /\ stretched' = <<>> /\ pc' = "pv_loop"
    /\ UNCHANGED <<op, params, sp, img, starAnchor, argIds, orig, err>>
    /\ UNCHANGED fnVars

\* processVeraLux, lines 523-580: row y of the stretch loop
PV_Row ==
    /\ pc = "pv_loop" /\ y < heap[img].h
    /\ LET im == heap[img]
           row == {y * im.w + x + 1 : x \in 0..(im.w - 1)}
       IN /\ heap' = SetPixels(heap, result,
                       [i \in 1..Len(im.px) |->
                           IF i \in row THEN StretchPixel(im.px[i], anchor, sp)
                           ELSE heap[result].px[i]])
          /\ stretched' = stretched \o [x \in 1..im.w |-> AnchorSubtract(im.px[y * im.w + x], anchor)]
    /\ trace' = Append(trace, "stretchRow")
    /\ y' = y + 1
    /\ UNCHANGED <<pc, op, params, sp, img, result, anchor, starAnchor, argIds, orig, err>>
    /\ UNCHANGED fnVars

\* processVeraLux, lines 582-584: Adaptive Range Expansion
PV_AdaptiveScaling ==
    /\ pc = "pv_loop" /\ y = heap[img].h /\ IsReadyToUse(sp)
    /\ LET r == applyAdaptiveScaling(heap, result, sp.weights, Field(sp, "targetBg", 0))
       IN heap' = r[1] /\ result' = r[2]
    /\ orig' = Snap(orig, heap, result)
    /\ trace' = Append(trace, "applyAdaptiveScaling")
    /\ pc' = "pv_polish"
    /\ UNCHANGED <<op, params, sp, img, anchor, starAnchor, y, argIds, stretched, err>>
    /\ UNCHANGED fnVars

\* processVeraLux, line 586: Soft-Clip Polish
PV_SoftClip ==
    /\ pc = "pv_polish"
    /\ LET r == applySoftClip(heap, result, ContrastTarget, 2 * ONE)
       IN heap' = r[1] /\ result' = r[2]
    /\ orig' = Snap(orig, heap, result)
    /\ trace' = Append(trace, "applySoftClip")
    /\ pc' = "pv_return"
    /\ UNCHANGED <<op, params, sp, img, anchor, starAnchor, y, argIds, stretched, err>>
    /\ UNCHANGED fnVars

\* processVeraLux, line 589: return result (to the caller, or to processStarPipeline)
PV_Return ==
    /\ \/ pc = "pv_return"
       \/ pc = "pv_loop" /\ y = heap[img].h /\ ~IsReadyToUse(sp)
    /\ pc' = IF op = "processStarPipeline" THEN "sp_lsr" ELSE "done"
    /\ UNCHANGED <<op, heap, params, sp, img, result, anchor, starAnchor, y, argIds,
                   orig, trace, stretched, err>>
    /\ UNCHANGED fnVars

\* the params object without its addPedestal: false entry
StarStretchParamsPedestalKept(p) ==
    [weights |-> p.weights, logD |-> p.logD, protectB |-> p.protectB,
     convergence |-> p.convergence, processingMode |-> "scientific", targetBg |-> 0,
     colorGrip |-> p.colorGrip, shadowConvergence |-> p.shadowConvergence,
     adaptive |-> FALSE]

\* processStarPipeline, lines 601-613: the params object handed to processVeraLux
StarStretchParams(p) ==
    [weights |-> p.weights, logD |-> p.logD, protectB |-> p.protectB,
     convergence |-> p.convergence, processingMode |-> "scientific", targetBg |-> 0,
     colorGrip |-> p.colorGrip, shadowConvergence |-> p.shadowConvergence,
     adaptive |-> FALSE, addPedestal |-> FALSE]

\* workingImg.apply(anchor, ImageOp_Sub); workingImg.truncate(0, 1)
PreSubtractPx(im, a) ==
    [i \in 1..Len(im.px) |-> [c \in 1..im.nc |-> Clamp01(im.px[i][c] - a)]]

\* the LSR test with >= in place of >
LsrEnabledNonNegative(p) == p.lsr >= 0

\* if (params.lsr > 0)
LsrEnabled(p) == p.lsr > 0

\* if (params.healing > 0)
HealingEnabled(p) == p.healing > 0

\* if (params.reduction > 0)
ReductionEnabled(p) == p.reduction > 0

\* a caller invokes processStarPipeline(img, params)
CallProcessStarPipeline ==
    /\ pc = "idle"
    /\ \E im \in Images, p \in StarParams :
          /\ heap' = <<im>> /\ params' = p
          /\ orig' = Snap(orig, <<im>>, 1)
    /\ op' = "processStarPipeline" /\ argIds' = {1} /\ pc' = "sp_init"
    /\ UNCHANGED <<sp, img, result, anchor, starAnchor, y, trace, stretched, err>>
    /\ UNCHANGED fnVars

\* processStarPipeline, lines 592-621: anchor, working copy, call of processVeraLux
SP_Init ==
    /\ pc = "sp_init"
    /\ LET a == IF IsAdaptive(params) THEN calculateAnchorAdaptive(heap[1], params.weights)
                ELSE 0
           wk == ImageCopy(heap, 1)
           h1 == SetPixels(wk[1], wk[2], PreSubtractPx(wk[1][wk[2]], a))
       IN /\ starAnchor' = a
          /\ heap' = h1
          /\ img' = wk[2]
          /\ orig' = Snap(orig, h1, wk[2])
    /\ trace' = IF IsAdaptive(params) THEN Append(trace, "star:calculateAnchorAdaptive")
                 ELSE trace
    /\ sp' = StarStretchParams(params)
    /\ pc' = "pv_anchor"
    /\ UNCHANGED <<op, params, result, anchor, y, argIds, stretched, err>>
    /\ UNCHANGED fnVars

\* processStarPipeline, lines 624-627
SP_LSR ==
    /\ pc = "sp_lsr"
    /\ IF LsrEnabled(params)
       THEN /\ LET r == applyLSR(heap, result, params.lsr)
               IN heap' = r[1] /\ result' = r[2]
            /\ orig' = Snap(orig, heap, result)
            /\ trace' = Append(trace, "applyLSR")
       ELSE UNCHANGED <<heap, result, orig, trace>>
    /\ pc' = "sp_healing"
    /\ UNCHANGED <<op, params, sp, img, anchor, starAnchor, y, argIds, stretched, err>>
    /\ UNCHANGED fnVars

\* processStarPipeline, lines 628-631
SP_Healing ==
    /\ pc = "sp_healing"
    /\ IF HealingEnabled(params)
       THEN /\ LET r == applyOpticalHealing(heap, result, params.healing)
               IN heap' = r[1] /\ result' = r[2]
            /\ orig' = Snap(orig, heap, result)
            /\ trace' = Append(trace, "applyOpticalHealing")
       ELSE UNCHANGED <<heap, result, orig, trace>>
    /\ pc' = "sp_reduction"
    /\ UNCHANGED <<op, params, sp, img, anchor, starAnchor, y, argIds, stretched, err>>
    /\ UNCHANGED fnVars

\* processStarPipeline, lines 632-635
SP_Reduction ==
    /\ pc = "sp_reduction"
    /\ IF ReductionEnabled(params)
       THEN /\ LET r == applyStarReduction(heap, result, params.reduction)
               IN heap' = r[1] /\ result' = r[2]
            /\ orig' = Snap(orig, heap, result)
            /\ trace' = Append(trace, "applyStarReduction")
       ELSE UNCHANGED <<heap, result, orig, trace>>
    /\ pc' = "sp_polish"
    /\ UNCHANGED <<op, params, sp, img, anchor, starAnchor, y, argIds, stretched, err>>
    /\ UNCHANGED fnVars

\* processStarPipeline, lines 637-641: soft clip and return
SP_SoftClip ==
    /\ pc = "sp_polish"
    /\ LET r == applySoftClip(heap, result, ContrastTarget, 2 * ONE)
       IN heap' = r[1] /\ result' = r[2]
    /\ orig' = Snap(orig, heap, result)
    /\ trace' = Append(trace, "star:applySoftClip")
    /\ pc' = "done"
    /\ UNCHANGED <<op, params, sp, img, anchor, starAnchor, y, argIds, stretched, err>>
    /\ UNCHANGED fnVars

\* composeStarImages, line 466: the dimension check
DimensionMismatch(star, base) == star.w # base.w \/ star.h # base.h

\* the channels composeStarImages reads that the star layer does not have
StrayChannels(star, base) == {c \in 1..base.nc : c > star.nc}

\* composeStarImages: the pixels of the result, a stray read returning v
ComposePx(star, base, useScreen, v) ==
    [i \in 1..Len(base.px) |-> [c \in 1..base.nc |->
        ComposeSample(IF c <= star.nc THEN star.px[i][c] ELSE v, base.px[i][c], useScreen)]]

\* a caller invokes composeStarImages(starmaskResult, starlessBase, useScreen)
CallComposeStarImages ==
    /\ pc = "idle"
    /\ \E star \in Images, base \in Images, useScreen \in BOOLEAN :
          /\ heap' = <<star, base>>
          /\ params' = [useScreen |-> useScreen]
          /\ orig' = Snap(Snap(orig, <<star, base>>, 1), <<star, base>>, 2)
    /\ op' = "composeStarImages" /\ argIds' = {1, 2} /\ pc' = "cs_check"
    /\ UNCHANGED <<sp, img, result, anchor, starAnchor, y, trace, stretched, err>>
    /\ UNCHANGED fnVars

\* composeStarImages, lines 466-468: throw on a dimension mismatch
CS_Throw ==
    /\ pc = "cs_check" /\ DimensionMismatch(heap[1], heap[2])
    /\ err' = "DimensionMismatch" /\ pc' = "done"
    /\ UNCHANGED <<op, heap, params, sp, img, result, anchor, starAnchor, y, argIds,
                   orig, trace, stretched>>
    /\ UNCHANGED fnVars

\* composeStarImages, lines 470-472: the result starts as a copy of the base
CS_Create ==
    /\ pc = "cs_check" /\ ~DimensionMismatch(heap[1], heap[2])
    /\ LET r == ImageCopy(heap, 2) IN heap' = r[1] /\ result' = r[2]
    /\ pc' = "cs_loop"
    /\ UNCHANGED <<op, params, sp, img, anchor, starAnchor, y, argIds, orig, trace,
                   stretched, err>>
    /\ UNCHANGED fnVars

\* composeStarImages, lines 474-490: the blend loop, every read inside the star layer
\* or answered with some value by the library
CS_Blend ==
    /\ pc = "cs_loop"
    /\ \E v \in (IF StrayChannels(heap[1], heap[2]) = {} THEN {0} ELSE StraySamples) :
          heap' = SetPixels(heap, result, ComposePx(heap[1], heap[2], params.useScreen, v))
    /\ trace' = Append(trace, "compose")
    /\ pc' = "done"
    /\ UNCHANGED <<op, params, sp, img, result, anchor, starAnchor, y, argIds, orig,
                   stretched, err>>
    /\ UNCHANGED fnVars

\* composeStarImages, line 477: the library rejects the read of a channel the star
\* layer does not have; the channels before it are already written
CS_SampleRaises ==
    /\ pc = "cs_loop" /\ StrayChannels(heap[1], heap[2]) # {}
    /\ heap' = SetPixels(heap, result,
                 [i \in 1..Len(heap[2].px) |-> [c \in 1..heap[2].nc |->
                     IF c <= heap[1].nc
                     THEN ComposeSample(heap[1].px[i][c], heap[2].px[i][c], params.useScreen)
                     ELSE heap[result].px[i][c]]])
    /\ err' = "ChannelOutOfRange" /\ result' = 0 /\ pc' = "done"
    /\ UNCHANGED <<op, params, sp, img, anchor, starAnchor, y, argIds, orig, trace,
                   stretched>>
    /\ UNCHANGED fnVars

Next ==
    \/ CallProcessVeraLux \/ PV_Anchor \/ PV_Row \/ PV_AdaptiveScaling \/ PV_SoftClip
    \/ PV_Return
    \/ CallProcessStarPipeline \/ SP_Init \/ SP_LSR \/ SP_Healing \/ SP_Reduction
    \/ SP_SoftClip
    \/ CallComposeStarImages \/ CS_Throw \/ CS_Create \/ CS_Blend \/ CS_SampleRaises

Spec == Init /\ [][Next]_vars

-----------------------------------------------------------------------------
(* Whole runs of processVeraLux, of the Suite and of the standalone engine,  *)
(* as functions from the input image and params to the returned image        *)

\* processVeraLux (Suite), lines 510-517: the anchor of the run
AnchorOf(im, p) ==
    IF IsAdaptive(p) THEN calculateAnchorAdaptive(im, p.weights)
    ELSE calculateAnchorStats(im, im.nc = 3)

\* processVeraLux (Suite), lines 523-580: the stretch loop over all rows
StretchLoop(im, a, p) ==
    [im EXCEPT !.px = [i \in 1..Len(im.px) |-> StretchPixel(im.px[i], a, p)]]

\* processVeraLux (Suite), lines 582-587: the ready_to_use stages
ReadyToUseStages(st, p) ==
    [st EXCEPT !.px =
        SoftClipPx([st EXCEPT !.px = AdaptiveScalingPx(st, p.weights, Field(p, "targetBg", 0))],
                   ContrastTarget, 2 * ONE)]

\* processVeraLux (Suite): the image it returns
processVeraLux(im, p) ==
    IF IsReadyToUse(p) THEN ReadyToUseStages(StretchLoop(im, AnchorOf(im, p), p), p)
    ELSE StretchLoop(im, AnchorOf(im, p), p)

\* VeraLuxCore.calculateAnchor (standalone)
calculateAnchor(im, isRGB) ==
    IF isRGB
    THEN LET floors == [c \in 1..3 |->
                          percentileStandalone(ChannelSamples(im, c - 1, StatsBudget), 50)]
         IN Max(0, SeqMin(floors) - AnchorMargin)
    ELSE Max(0, percentileStandalone(ChannelSamples(im, 0, StatsBudget), 50) - AnchorMargin)

\* standalone: the value written for one channel, always lifted by the pedestal
EmitStandalone(v) == Clamp01(MulFP(v, ONE - pedestal) + pedestal)

\* standalone: the RGB branch of the loop body, on the anchor-subtracted pixel
StretchRGBStandalone(pre, p) ==
    LET D_val == Pow10(p.logD)
        colorGrip == Field(p, "colorGrip", ONE)
        L == Luma(pre, p.weights)
        Lstr == Clamp01(hyperbolicStretch(L, D_val, p.protectB, 0))
        k == PowFP(Lstr, p.convergence)
        vec == [c \in 1..3 |->
                  IF Lstr = 0 THEN 0
                  ELSE MulFP(MulFP(DivFP(pre[c], L), ONE - k) + k, Lstr)]
        scal == [c \in 1..3 |-> Clamp01(hyperbolicStretch(pre[c], D_val, p.protectB, 0))]
        final == [c \in 1..3 |->
                    IF colorGrip < ONE
                    THEN MulFP(vec[c], colorGrip) + MulFP(scal[c], ONE - colorGrip)
                    ELSE vec[c]]
    IN [c \in 1..3 |-> EmitStandalone(final[c])]

\* standalone: the mono branch of the loop body
StretchMonoStandalone(pre, p) ==
    <<EmitStandalone(hyperbolicStretch(pre[1], Pow10(p.logD), p.protectB, 0))>>

\* standalone: the loop body for one pixel
StretchPixelStandalone(pixel, a, p) ==
    IF Len(pixel) = 3 THEN StretchRGBStandalone(AnchorSubtract(pixel, a), p)
    ELSE StretchMonoStandalone(AnchorSubtract(pixel, a), p)

\* standalone applyAdaptiveScaling, lines 2310-2320: the deviation is taken about the
\* median
GlobalFloorStandalone(luma, median) ==
    LET n == Len(luma)
        stdDev == SqrtFP(SeqSum([k \in 1..n |-> (luma[k] - median) * (luma[k] - median)]) \div n)
    IN Max(Min(ONE, SeqMin(luma)), median - (27 * stdDev) \div 10)

\* the largest of the three channels' p-th percentiles
ChannelMax(im, p) ==
    Max(percentileStandalone(ChannelSamples(im, 0, StatsBudget), p),
        Max(percentileStandalone(ChannelSamples(im, 1, StatsBudget), p),
            percentileStandalone(ChannelSamples(im, 2, StatsBudget), p)))

\* standalone applyAdaptiveScaling, lines 2322-2341: softCeil and hardCeil as first
\* computed
RawCeilingsStandalone(im, luma) ==
    IF im.nc = 3 THEN [soft |-> ChannelMax(im, 9900), hard |-> ChannelMax(im, 9999)]
    ELSE [soft |-> percentileStandalone(luma, 9900), hard |-> percentileStandalone(luma, 9999)]

\* standalone applyAdaptiveScaling: floor, ceilings and scale
ScalingStatsStandalone(im, weights) ==
    LET luma == LumaSamples(im, weights, StatsBudget)
    IN StatsFrom(GlobalFloorStandalone(luma, percentileStandalone(luma, 5000)),
                 RawCeilingsStandalone(im, luma).soft, RawCeilingsStandalone(im, luma).hard)

\* standalone: the sampled median luminance of an image
MedianLumaStandalone(im, weights) ==
    percentileStandalone(LumaSamples(im, weights, StatsBudget), 5000)

\* standalone applyAdaptiveScaling: the pixels of its result
AdaptiveScalingPxStandalone(im, weights, targetBg) ==
    LET expanded == [im EXCEPT !.px = Expand(im, ScalingStatsStandalone(im, weights))]
    IN Retarget(expanded.px, MedianLumaStandalone(expanded, weights), targetBg)

\* standalone processVeraLux, lines 2200-2270: the stretch loop over all rows
StretchLoopStandalone(im, a, p) ==
    [im EXCEPT !.px = [i \in 1..Len(im.px) |-> StretchPixelStandalone(im.px[i], a, p)]]

\* standalone processVeraLux, lines 2272-2279: the ready_to_use stages
ReadyToUseStagesStandalone(st, p) ==
    [st EXCEPT !.px =
        SoftClipPx([st EXCEPT !.px = AdaptiveScalingPxStandalone(st, p.weights, p.targetBg)],
                   ContrastTarget, 2 * ONE)]

\* standalone processVeraLux: the image it returns
processVeraLuxStandalone(im, p) ==
    IF p.processingMode = "ready_to_use"
    THEN ReadyToUseStagesStandalone(StretchLoopStandalone(im, calculateAnchor(im, im.nc = 3), p), p)
    ELSE StretchLoopStandalone(im, calculateAnchor(im, im.nc = 3), p)

-----------------------------------------------------------------------------
(* The auto-solver.  Its tolerance 0.0001 lies below the resolution of the    *)
(* samples, so solveLogD and the stretch it probes are computed to 1e-6.     *)

\* 1.0 in the arithmetic of the solver
FINE == 1000000

\* Math.LN2 and Math.LN10, to 1e-6
LN2 == 693147

LN10 == 2302585

\* a * b of two numbers to 1e-6 (split so that the products stay in range)
MulF(a, b) ==
    (a \div 1000) * (b \div 1000)
      + ((a \div 1000) * (b % 1000) + (a % 1000) * (b \div 1000)
           + ((a % 1000) * (b % 1000)) \div 1000) \div 1000

RECURSIVE QuotientDigits(_, _, _, _)
\* n more decimal digits of the quotient q with remainder r of a division by b
QuotientDigits(q, r, b, n) ==
    IF n = 0 THEN q ELSE QuotientDigits(10 * q + (10 * r) \div b, (10 * r) % b, b, n - 1)

\* a / b of two numbers to 1e-6, b > 0
DivF(a, b) == QuotientDigits(a \div b, a % b, b, 6)

RECURSIVE NewtonSqrt(_, _, _)
NewtonSqrt(v, s, n) == IF n = 0 THEN s ELSE NewtonSqrt(v, (s + DivF(v, s)) \div 2, n - 1)

\* Math.sqrt of a number in [1,4]
SqrtF(v) == NewtonSqrt(v, (v + FINE) \div 2, 5)

RECURSIVE LnOdd(_, _)
\* 1/d + z^2/(d+2) + z^4/(d+4) + ..., up to the term in 1/11
LnOdd(z2, d) == IF d = 11 THEN FINE \div 11 ELSE FINE \div d + MulF(LnOdd(z2, d + 2), z2)

\* Math.log on [1,2): 2 atanh(z) with z = (x-1)/(x+1)
LnUnit(z) == 2 * MulF(LnOdd(MulF(z, z), 1), z)

RECURSIVE LnF(_)
\* Math.log of a positive number
LnF(x) ==
    IF x >= 2 * FINE THEN LN2 + LnF(x \div 2)
    ELSE IF x < FINE THEN LnF(2 * x) - LN2
    ELSE LnUnit(DivF(x - FINE, x + FINE))

RECURSIVE ExpTerms(_, _)
\* 1 + r/n (1 + r/(n+1) (1 + ...)), up to the term in r^9
ExpTerms(r, n) == IF n = 10 THEN FINE ELSE FINE + MulF(ExpTerms(r, n + 1), r) \div n

RECURSIVE ExpF(_)
\* Math.exp of a number >= 0
ExpF(r) == IF r >= LN2 THEN 2 * ExpF(r - LN2) ELSE ExpTerms(r, 1)

RECURSIVE TenTo(_)
TenTo(k) == IF k = 0 THEN 1 ELSE 10 * TenTo(k - 1)

\* log(1 + sqrt(1 + inv^2)), inv = 1/x: what Math.asinh(x) exceeds log(x) by
AsinhOverLn(inv) == LnF(FINE + SqrtF(FINE + MulF(inv, inv)))

\* Math.asinh of x >= 0: log(x + sqrt(x^2 + 1)), taken as
\* log(x) + log(1 + sqrt(1 + 1/x^2)) above 1
AsinhF(x) ==
    IF x <= FINE THEN LnF(x + SqrtF(MulF(x, x) + FINE))
    ELSE LnF(x) + AsinhOverLn(DivF(FINE, x))

\* Math.asinh(xm * 10^k) for xm in [1,25] and a whole k >= 0
AsinhTimesTenTo(xm, k) == k * LN10 + LnF(xm) + AsinhOverLn(DivF(FINE, xm) \div TenTo(k))

\* Math.asinh(m * 10^k + b) for a mantissa m in [1,10) and a whole k
AsinhScaled(m, k, b) ==
    IF k < 0 THEN AsinhF(m \div TenTo(0 - k) + b)
    ELSE AsinhTimesTenTo(m + b \div TenTo(k), k)

\* Math.asinh(10^t + b): 10^t = Math.pow(10, t) is kept as mantissa and exponent,
\* since it reaches 1e7
AsinhOfPow10Plus(t, b) == AsinhScaled(ExpF(MulF(t % FINE, LN10)), t \div FINE, b)

\* log10 of a positive number
Log10F(v) == DivF(LnF(v), LN10)

\* VeraLuxCore.hyperbolicStretch(value, Math.pow(10, logD), b, 0) for value > 0 and
\* logD >= 0 (D above its floor 0.1), where D * value = 10^(logD + log10(value))
StretchRatio(term1, term2, norm) ==
    IF norm - term2 = 0 THEN (term1 - term2) * FINE ELSE DivF(term1 - term2, norm - term2)

hyperbolicStretchPow10(value, logD, b) ==
    StretchRatio(AsinhOfPow10Plus(logD + Log10F(value), Max(b, FINE \div 10)),
                 AsinhF(Max(b, FINE \div 10)),
                 AsinhOfPow10Plus(logD, Max(b, FINE \div 10)))

\* the iterations of the bisection
MaxIter == 40

\* the tolerance 0.0001 of the bisection
SolveEpsilon == FINE \div 10000

\* the tolerance taken a hundred times wider
SolveHitLoose(testVal, targetMedian) == Abs(testVal - targetMedian) < FINE \div 100

\* solveLogD, line 283: Math.abs(testVal - targetMedian) < 0.0001
SolveHit(testVal, targetMedian) == Abs(testVal - targetMedian) < SolveEpsilon

\* the bisection step with the two halves exchanged
NarrowReversed(lowLog, highLog, midLog, testVal, targetMedian) ==
    IF testVal < targetMedian THEN <<lowLog, midLog>> ELSE <<midLog, highLog>>

\* solveLogD, lines 284-285: the half of [lowLog, highLog] that is kept
Narrow(lowLog, highLog, midLog, testVal, targetMedian) ==
    IF testVal < targetMedian THEN <<midLog, highLog>> ELSE <<lowLog, midLog>>

RECURSIVE SolveLoop(_, _, _, _, _)
\* solveLogD, lines 279-286: the loop from iteration iter on, on the bounds
\* range = <<lowLog, highLog>>; bestLogD is still 2.0 when it runs out
SolveLoop(medianIn, targetMedian, bVal, range, iter) ==
    IF iter >= MaxIter THEN 2 * FINE
    ELSE LET midLog == (range[1] + range[2]) \div 2
             testVal == hyperbolicStretchPow10(medianIn, midLog, bVal)
         IN IF SolveHit(testVal, targetMedian) THEN midLog
            ELSE SolveLoop(medianIn, targetMedian, bVal,
                           Narrow(range[1], range[2], midLog, testVal, targetMedian),
                           iter + 1)

\* VeraLuxCore.solveLogD
solveLogD(medianIn, targetMedian, bVal) ==
    IF medianIn <= 0 THEN 2 * FINE
    ELSE SolveLoop(medianIn, targetMedian, bVal, <<0, 7 * FINE>>, 0)

-----------------------------------------------------------------------------
(* Pure functions, applied to inputs drawn from bounded sets *)

\* the largest sample of the blend grid, in quarters
MaxGrid == 8

\* base and star samples: from -1.0 upward in steps of 0.25
BlendGrid == {k * (ONE \div 4) : k \in (0 - 4)..MaxGrid}

\* the longest array handed to percentile
MaxLen == 2

Arrays == {<<>>} \cup UNION {[1..n -> {0, ONE \div 4, ONE}] : n \in 1..MaxLen}

\* the p of the calls in the engine: 0.5, 50, 99, 99.99, and the ends 0 and 100
Percents == {0, 50, 5000, 9900, 9999, 10000}

\* the caller's array after percentile returns: the Suite sorts arr itself (after
\* its guard), the standalone engine sorts arr.slice()
ArrayAfter(arr, variant) ==
    IF variant = "suite" /\ Len(arr) > 0 THEN SortAsc(arr) ELSE arr

\* the blend of composeStarImages on one base sample and two star samples
EvalCompose ==
    /\ fn = "none"
    /\ \E b \in BlendGrid, s1 \in BlendGrid, s2 \in BlendGrid, useScreen \in BOOLEAN :
          /\ fnArgs' = [base |-> b, s1 |-> s1, s2 |-> s2, useScreen |-> useScreen]
          /\ fnOut' = [o1 |-> ComposeSample(s1, b, useScreen),
                       o2 |-> ComposeSample(s2, b, useScreen)]
    /\ fn' = "compose"
    /\ UNCHANGED pipeVars

\* VeraLuxCore.percentile of either engine
EvalPercentile ==
    /\ fn = "none"
    /\ \E arr \in Arrays, p \in Percents, variant \in {"suite", "standalone"} :
          /\ fnArgs' = [arr |-> arr, p |-> p, variant |-> variant]
          /\ fnOut' = [value |-> IF variant = "suite" THEN percentile(arr, p)
                                 ELSE percentileStandalone(arr, p),
                       arr |-> ArrayAfter(arr, variant)]
    /\ fn' = "percentile"
    /\ UNCHANGED pipeVars

\* the largest image size handed to the strided subsample, in multiples of the budget
MaxFold == 3

\* image sizes around the multiples of the budget, and the smallest image
StrideTotals(budget) ==
    {1} \cup {k * budget + d : k \in 1..MaxFold, d \in {0 - 1, 0, 1}}

\* the strided subsample of calculateAnchorStats and applyAdaptiveScaling (budget
\* 500000) and of calculateAnchorAdaptive (budget 2000000) on an image of
\* totalPixels pixels
EvalStride ==
    /\ fn = "none"
    /\ \E budget \in {StatsBudget, AdaptiveBudget} : \E totalPixels \in StrideTotals(budget) :
          /\ fnArgs' = [totalPixels |-> totalPixels, budget |-> budget]
          /\ fnOut' = [step |-> StrideStep(totalPixels, budget),
                       visits |-> StrideVisits(totalPixels, budget)]
    /\ fn' = "stride"
    /\ UNCHANGED pipeVars

\* VeraLuxCore.calculateAnchorAdaptive on an image, with the samples it drew and the
\* bin its walk back from the histogram peak ended on
EvalAnchorAdaptive ==
    /\ fn = "none"
    /\ \E im \in Images :
          /\ fnArgs' = [img |-> im, weights |-> Rec709]
          /\ fnOut' = [samples |-> AdaptiveSamples(im, Rec709),
                       anchorIdx |-> anchorIdx(HistBins(AdaptiveSamples(im, Rec709))),
                       anchor |-> calculateAnchorAdaptive(im, Rec709)]
    /\ fn' = "calculateAnchorAdaptive"
    /\ UNCHANGED pipeVars

\* the number of steps of the grid of symmetry points SP in [0,1]
SPSteps == 4

SPGrid == {(k * ONE) \div SPSteps : k \in 0..SPSteps}

\* stretch factors D: below the floor 0.1 (also negative), at it, and above
DGrid == {0 - ONE, 0, ONE \div 20, ONE \div 10, ONE, 10 * ONE, 100 * ONE}

\* highlight protections b: below the floor 0.1, at it, and up to 15
BGrid == {0 - ONE, 0, ONE \div 20, ONE \div 10, ONE, 6 * ONE, 15 * ONE}

\* VeraLuxCore.hyperbolicStretch at value = SP and at value = 1
EvalStretch ==
    /\ fn = "none"
    /\ \E D \in DGrid, b \in BGrid, SP \in SPGrid :
          /\ fnArgs' = [D |-> D, b |-> b, SP |-> SP]
          /\ fnOut' = [atSP |-> hyperbolicStretch(SP, D, b, SP),
                       atOne |-> hyperbolicStretch(ONE, D, b, SP)]
    /\ fn' = "hyperbolicStretch"
    /\ UNCHANGED pipeVars

\* the range of each stretch parameter, as the dialog's controls set it
ParamRanges ==
    [logD |-> <<0, 7 * ONE>>, protectB |-> <<ONE \div 10, 15 * ONE>>,
     convergence |-> <<ONE, 10 * ONE>>, colorGrip |-> <<0, ONE>>,
     shadowConvergence |-> <<0, 3 * ONE>>]

\* values outside these ranges, below and above
OutOfRange ==
    [logD |-> {0 - ONE}, protectB |-> {0, 16 * ONE}, convergence |-> {0, 11 * ONE},
     colorGrip |-> {0 - ONE \div 2, (3 * ONE) \div 2},
     shadowConvergence |-> {0 - ONE, 4 * ONE}]

\* the params the comparison starts from: statistical anchor, pedestal unset
BaseParams ==
    {q \in MainParams : ~q.adaptive /\ q.logD = 2 * ONE /\ q.shadowConvergence = 0
                        /\ "addPedestal" \notin DOMAIN q}

\* processVeraLux (Suite) with one parameter out of its range, and with that
\* parameter at the nearest bound of its range
EvalOutOfRange ==
    /\ fn = "none"
    /\ \E im \in Images, p \in BaseParams, field \in DOMAIN OutOfRange :
         \E v \in OutOfRange[field] :
          /\ fnArgs' = [img |-> im, params |-> [p EXCEPT ![field] = v], field |-> field]
          /\ fnOut' = [given |-> processVeraLux(im, [p EXCEPT ![field] = v]),
                       bounded |-> processVeraLux(im,
                           [p EXCEPT ![field] = Max(ParamRanges[field][1],
                                                    Min(ParamRanges[field][2], v))])]
    /\ fn' = "outOfRange"
    /\ UNCHANGED pipeVars

\* the ceilings of applyAdaptiveScaling as each engine first computes them, with the
\* luminance samples they are computed from
EvalCeilings ==
    /\ fn = "none"
    /\ \E im \in Images :
          /\ fnArgs' = [img |-> im, weights |-> Rec709]
          /\ fnOut' = [luma |-> LumaSamples(im, Rec709, StatsBudget),
                       suite |-> RawCeilings(LumaSamples(im, Rec709, StatsBudget)),
                       standalone |->
                           RawCeilingsStandalone(im, LumaSamples(im, Rec709, StatsBudget))]
    /\ fn' = "ceilings"
    /\ UNCHANGED pipeVars

\* the params both engines read alike: statistical anchor, shadowConvergence 0,
\* addPedestal unset
SharedParams ==
    {q \in MainParams : ~q.adaptive /\ q.shadowConvergence = 0
                        /\ "addPedestal" \notin DOMAIN q}

\* floor, ceilings and scale of applyAdaptiveScaling on the stretched image st
\* (none in scientific mode)
StatsIfReady(p, stats) == IF p.processingMode = "ready_to_use" THEN stats ELSE <<>>

\* processVeraLux of the Suite and of the standalone engine on the same image and
\* params
EvalEngines ==
    /\ fn = "none"
    /\ \E im \in Images, p \in SharedParams :
          /\ fnArgs' = [img |-> im, params |-> p]
          /\ fnOut' =
               [suite |-> processVeraLux(im, p),
                standalone |-> processVeraLuxStandalone(im, p),
                suiteStats |-> StatsIfReady(p,
                    ScalingStats(StretchLoop(im, AnchorOf(im, p), p), p.weights)),
                standaloneStats |-> StatsIfReady(p,
                    ScalingStatsStandalone(
                        StretchLoopStandalone(im, calculateAnchor(im, im.nc = 3), p),
                        p.weights))]
    /\ fn' = "engines"
    /\ UNCHANGED pipeVars

\* the number of steps of the grid of backgrounds in [0,1]
BgSteps == 8

\* current backgrounds strictly inside (0,1)
CurrentBgGrid == {(k * ONE) \div BgSteps : k \in 1..(BgSteps - 1)}

\* target backgrounds in [0,1], the ends and the default 0.2 included
TargetBgGrid == {0, ONE \div 5, ONE \div 4, ONE \div 2, (3 * ONE) \div 4, ONE}

\* the midtones balance m of applyAdaptiveScaling and where applyMTF then puts
\* currentBg
EvalSolveM ==
    /\ fn = "none"
    /\ \E currentBg \in CurrentBgGrid, targetBg \in TargetBgGrid :
          /\ fnArgs' = [currentBg |-> currentBg, targetBg |-> targetBg]
          /\ fnOut' = [denominator |-> SolveMDenominator(currentBg, targetBg),
                       m |-> SolveM(currentBg, targetBg),
                       moved |-> applyMTF(currentBg, SolveM(currentBg, targetBg))]
    /\ fn' = "solveM"
    /\ UNCHANGED pipeVars

\* images of two tones: a uniform image expands to the pedestal 0.001 alone, which
\* the samples' resolution does not retarget faithfully
TwoToneImages ==
    {im \in Images : \E i, j \in 1..Len(im.px) : Luma(im.px[i], Rec709) # Luma(im.px[j], Rec709)}

\* the expanded image of applyAdaptiveScaling, before the retargeting
ExpandedImage(im, weights) == [im EXCEPT !.px = Expand(im, ScalingStats(im, weights))]

\* applyAdaptiveScaling on an image: the sampled median after the expansion and the
\* sampled median of the returned image
EvalAdaptiveScaling ==
    /\ fn = "none"
    /\ \E im \in TwoToneImages, targetBg \in {ONE \div 5, ONE \div 2} :
          /\ fnArgs' = [img |-> im, weights |-> Rec709, targetBg |-> targetBg]
          /\ fnOut' = [currentBg |-> MedianLuma(ExpandedImage(im, Rec709), Rec709),
                       px |-> AdaptiveScalingPx(im, Rec709, targetBg),
                       median |-> MedianLuma(
                           [im EXCEPT !.px = AdaptiveScalingPx(im, Rec709, targetBg)], Rec709)]
    /\ fn' = "applyAdaptiveScaling"
    /\ UNCHANGED pipeVars

\* the number of steps of the grid of target medians in (0,1)
TargetSteps == 20

\* input medians in (0,1), from 0.001 to 0.9
MedianGrid ==
    {FINE \div 1000, FINE \div 100, FINE \div 20, FINE \div 5, FINE \div 2, (9 * FINE) \div 10}

\* target medians strictly inside (0,1)
TargetGrid == {(k * FINE) \div TargetSteps : k \in 1..(TargetSteps - 1)}

\* highlight protections b in [0.1, 15]
BValGrid == {FINE \div 10, FINE, 6 * FINE, 15 * FINE}

\* the stretched median at the ends of the range of logD and at logD
SolvedAt(medianIn, bVal, logD) ==
    [logD |-> logD,
     atLow |-> hyperbolicStretchPow10(medianIn, 0, bVal),
     atHigh |-> hyperbolicStretchPow10(medianIn, 7 * FINE, bVal),
     stretched |-> hyperbolicStretchPow10(medianIn, logD, bVal)]

\* VeraLuxCore.solveLogD on the targets that a logD in [0,7] can reach, with the
\* stretched median at the ends of the range of logD and at the logD it returns
EvalSolveLogD ==
    /\ fn = "none"
    /\ \E medianIn \in MedianGrid, targetMedian \in TargetGrid, bVal \in BValGrid :
          /\ hyperbolicStretchPow10(medianIn, 0, bVal) <= targetMedian
          /\ targetMedian <= hyperbolicStretchPow10(medianIn, 7 * FINE, bVal)
          /\ fnArgs' = [medianIn |-> medianIn, targetMedian |-> targetMedian, bVal |-> bVal]
          /\ fnOut' = SolvedAt(medianIn, bVal, solveLogD(medianIn, targetMedian, bVal))
    /\ fn' = "solveLogD"
    /\ UNCHANGED pipeVars

\* runStretchProcess, lines 1802-1807: grip and shadow from the dialog's controls
StretchColour(ready, val, grip, shadow) ==
    IF ready
    THEN IF val < 0 THEN [colorGrip |-> ONE, shadowConvergence |-> (3 * ONE * Abs(val)) \div 100]
         ELSE [colorGrip |-> ONE - (6 * ONE * val) \div 1000, shadowConvergence |-> 0]
    ELSE [colorGrip |-> grip, shadowConvergence |-> shadow]

\* processPreviewFast, lines 924-941, and processPreview, lines 1137-1154: at val = 0
\* grip and shadow stay what the Grip and Shadow Conv controls hold
PreviewColour(ready, val, grip, shadow) ==
    IF ready
    THEN IF val < 0 THEN [colorGrip |-> ONE, shadowConvergence |-> (3 * ONE * Abs(val)) \div 100]
         ELSE IF val > 0 THEN [colorGrip |-> ONE - (6 * ONE * val) \div 1000, shadowConvergence |-> 0]
         ELSE [colorGrip |-> grip, shadowConvergence |-> shadow]
    ELSE [colorGrip |-> grip, shadowConvergence |-> shadow]

\* positions of the Unified Strategy slider
UnifiedVals == {0 - 100, 0 - 50, 0, 50, 100}

\* the colour parameters that PROCESS STRETCH, Preview Refresh and the full preview
\* hand to processVeraLux, for one state of the dialog's controls
EvalColourParams ==
    /\ fn = "none"
    /\ \E ready \in BOOLEAN, val \in UnifiedVals, grip \in {ONE \div 2, ONE},
          shadow \in {0, ONE} :
          /\ fnArgs' = [radReady |-> ready, ncUnified |-> val, ncGrip |-> grip,
                        ncShadow |-> shadow]
          /\ fnOut' = [runStretchProcess |-> StretchColour(ready, val, grip, shadow),
                       processPreviewFast |-> PreviewColour(ready, val, grip, shadow),
                       processPreview |-> PreviewColour(ready, val, grip, shadow)]
    /\ fn' = "colourParams"
    /\ UNCHANGED pipeVars

\* ---- Progress reporting ----
\* Math.round(n / d) for non-negative n and positive d.
RoundDiv(n, d) == (2 * n + d) \div (2 * d)

\* var pct = Math.round((y / h) * 100)
RowPct(h, row) == RoundDiv(100 * row, h)

\* var pct = 10 + Math.round((y / h) * 80)   (standalone)
BarPct(h, row) == 10 + RoundDiv(80 * row, h)

\* lastPct when a row begins: 0 before the first row, afterwards the percent of
\* the row before, because the loop stores every percent that differs.
LastPct(h, row) == IF row = 0 THEN 0 ELSE RowPct(h, row - 1)

LastBarPct(h, row) == IF row = 0 THEN 0 ELSE BarPct(h, row - 1)

\* The messages of the Suite's row loop (with a callback): a row whose percent
\* differs from lastPct reports it when it is a multiple of five.
RowMessages(h) ==
    LET reporting == SelectSeq([i \in 1..h |-> i - 1],
                               LAMBDA row : /\ RowPct(h, row) # LastPct(h, row)
                                            /\ RowPct(h, row) % 5 = 0)
    IN  [i \in 1..Len(reporting) |->
            [msg |-> "Stretching: %", pct |-> RowPct(h, reporting[i])]]

\* The messages of the standalone row loop: the bar position decides when to
\* report, the text carries round(100 y/h).
RowMessagesStandalone(h) ==
    LET reporting == SelectSeq([i \in 1..h |-> i - 1],
                               LAMBDA row : BarPct(h, row) # LastBarPct(h, row))
    IN  [i \in 1..Len(reporting) |->
            [msg |-> "Stretching: %", pct |-> RowPct(h, reporting[i])]]

Phase(m) == [msg |-> m, pct |-> 0 - 1]

\* Everything the Suite's processVeraLux tells its callback on an image of h rows.
ProgressMessages(h, adaptive, ready, hasCallback) ==
    IF ~hasCallback THEN <<>>
    ELSE <<Phase("Analyzing..."),
           Phase(IF adaptive THEN "Calculating Adaptive Anchor..."
                 ELSE "Calculating Statistical Anchor..."),
           Phase("Stretching...")>>
         \o RowMessages(h)
         \o (IF ready THEN <<Phase("Adaptive Scaling..."), Phase("Soft-clip Polish...")>>
             ELSE <<>>)
         \o <<Phase("Complete!")>>

\* The same for the standalone engine.
ProgressMessagesStandalone(h, ready, hasCallback) ==
    IF ~hasCallback THEN <<>>
    ELSE <<Phase("Analyzing image data..."), Phase("Calculating black point..."),
           Phase("Starting Stretch...")>>
         \o RowMessagesStandalone(h)
         \o (IF ready THEN <<Phase("Adaptive Scaling..."), Phase("Soft-clip Polish...")>>
             ELSE <<>>)
         \o <<Phase("Complete!")>>

MaxRows == 104
RowCounts == {1, 2, 3, 40, 100, MaxRows - 1, MaxRows}

\* One run of each engine on an image with and without a callback, and what
\* the callback hears when the image has h rows.
EvalProgress ==
    /\ fn = "none"
    /\ \E h \in RowCounts, im \in ImagesOf(MonoPalette, 1), hasCallback \in BOOLEAN,
          p \in StretchParams({2 * ONE}, {0}) :
          /\ p.colorGrip = ONE /\ "addPedestal" \notin DOMAIN p
          /\ fnArgs' = [h |-> h, img |-> im, params |-> p, progressCallback |-> hasCallback]
          /\ fnOut' = [messages |-> ProgressMessages(h, IsAdaptive(p), IsReadyToUse(p),
                                                     hasCallback),
                       standalone |-> ProgressMessagesStandalone(h, IsReadyToUse(p),
                                                                 hasCallback),
                       result |-> processVeraLux(im, p),
                       resultStandalone |-> processVeraLuxStandalone(im, p)]
    /\ fn' = "progress"
    /\ UNCHANGED pipeVars

\* ---- runSmartSolver (the AUTO-CALC button), in the solver's arithmetic ----

\* a * (1 - weight) + b * weight for a <= b, weight = frac / 10000
BlendF(a, b, frac) == a + ((b - a) \div 10000) * frac + (((b - a) % 10000) * frac) \div 10000

\* VeraLuxCore.percentile on a non-empty array of solver numbers
percentileF(arr, p) ==
    LET sorted == SortAsc(arr)
        n == Len(sorted)
        lower == (p * (n - 1)) \div 10000
        frac == (p * (n - 1)) % 10000
    IN IF frac = 0 \/ lower + 1 >= n THEN sorted[Min(lower, n - 1) + 1]
       ELSE BlendF(sorted[lower + 1], sorted[lower + 2], frac)

\* Math.sqrt of a solver number
SqrtOf(v) == IF v <= 0 THEN 0 ELSE NewtonSqrt(v, (v + FINE) \div 2, 12)

\* lines 1690-1696: the samples the solver keeps, val = max(0, lum - anchor) > 1e-7
SolverSamples(im, weights, anch) ==
    LET lum == LumaSamples(im, weights, 100000)
        kept == SelectSeq(lum, LAMBDA v : Max(0, v - anch) > 0)
    IN [k \in 1..Len(kept) |-> (kept[k] - anch) * (FINE \div ONE)]

\* lines 1709-1716: the floor of the samples stretched with D = 10^bestLogD
SimulatedFloor(samples, bestLogD, bVal) ==
    LET n == Len(samples)
        strSamples == [k \in 1..n |-> hyperbolicStretchPow10(samples[k], bestLogD, bVal)]
        med == percentileF(strSamples, 5000)
        mean == SeqSum(strSamples) \div n
        std == SqrtOf(SeqSum([k \in 1..n |-> MulF(Abs(strSamples[k] - mean),
                                                  Abs(strSamples[k] - mean))]) \div n)
        minV == Min(FINE, SeqMin(strSamples))
    IN Max(minV, med - (27 * std) \div 10)

\* the mutant of SolverSafe: the floor is never found safe
SolverSafeNever(globalFloor) == FALSE

\* if (globalFloor <= 0.001) break
SolverSafe(globalFloor) == globalFloor <= FINE \div 1000

\* for (iter = 0; iter < 15; iter++)
SolverRounds == 15

\* targetTemp -= 0.015
TargetStep == (15 * FINE) \div 1000

\* if (targetTemp < 0.05) break
TargetFloor == (5 * FINE) \div 100

\* the images the solver is tried on: rows of mono pixels (all black, uniform,
\* a dark pair under a brighter background), and one RGB pixel
SolverImages ==
    {[w |-> Len(f), h |-> 1, nc |-> 1, px |-> f] :
        f \in {<<<<0>>, <<0>>, <<0>>>>,
               <<<<ONE \div 4>>, <<ONE \div 4>>, <<ONE \div 4>>>>,
               <<<<ONE \div 8>>, <<ONE \div 8>>, <<ONE \div 4>>, <<ONE \div 4>>, <<ONE \div 4>>>>,
               <<<<ONE \div 8>>, <<ONE \div 8>>, <<(9 * ONE) \div 40>>, <<(9 * ONE) \div 40>>,
                 <<(9 * ONE) \div 40>>>>}}
    \cup {[w |-> 1, h |-> 1, nc |-> 3, px |-> <<<<ONE \div 2, ONE \div 4, (3 * ONE) \div 4>>>>]}

\* settings of the Target Bg control
SolverTargets == {FINE \div 10, FINE \div 4, (3 * FINE) \div 10}

\* AUTO-CALC is clicked: lines 1681-1702, up to the loop.  With no sample left
\* Log D is set to 2.0 and the handler returns.
SmartSolverStart ==
    /\ fn = "none"
    /\ \E im \in SolverImages, ready, adaptive \in BOOLEAN, target \in SolverTargets :
          LET anch == IF adaptive THEN calculateAnchorAdaptive(im, Rec709)
                        ELSE calculateAnchorStats(im, im.nc = 3)
              samples == SolverSamples(im, Rec709, anch)
          IN  /\ fnArgs' = [img |-> im, radReady |-> ready, chkAdaptive |-> adaptive,
                            ncTarget |-> target, ncProtect |-> 6 * FINE,
                            samples |-> samples]
              /\ fnOut' = IF Len(samples) = 0
                          THEN [pc |-> "done", iter |-> 0, targetTemp |-> target,
                                bestLogD |-> 2 * FINE, ncLogD |-> 2 * FINE,
                                targets |-> <<>>, results |-> <<>>, floors |-> <<>>]
                          ELSE [pc |-> "loop", iter |-> 0, targetTemp |-> target,
                                bestLogD |-> 2 * FINE, ncLogD |-> 2 * FINE,
                                targets |-> <<>>, results |-> <<>>, floors |-> <<>>]
    /\ fn' = "smartSolver"
    /\ UNCHANGED pipeVars

\* One pass of the loop of lines 1705-1721, and, when the loop ends with it,
\* dlg.ncLogD.setValue(bestLogD).
SmartSolverIterate ==
    /\ fn = "smartSolver" /\ fnOut.pc = "loop"
    /\ LET medianIn == percentileF(fnArgs.samples, 5000)
           best == solveLogD(medianIn, fnOut.targetTemp, fnArgs.ncProtect)
           globalFloor == SimulatedFloor(fnArgs.samples, best, fnArgs.ncProtect)
           called == [fnOut EXCEPT !.bestLogD = best,
                                   !.targets = Append(@, fnOut.targetTemp),
                                   !.results = Append(@, best)]
           done(s) == [s EXCEPT !.pc = "done", !.ncLogD = s.bestLogD]
       IN  fnOut' =
             IF ~fnArgs.radReady THEN done(called)
             ELSE IF SolverSafe(globalFloor)
                  THEN done([called EXCEPT !.floors = Append(@, globalFloor)])
                  ELSE LET lowered == [called EXCEPT !.floors = Append(@, globalFloor),
                                                     !.targetTemp = @ - TargetStep]
                       IN  IF lowered.targetTemp < TargetFloor \/ fnOut.iter + 1 >= SolverRounds
                           THEN done(lowered)
                           ELSE [lowered EXCEPT !.iter = @ + 1]
    /\ UNCHANGED <<fn, fnArgs>>
    /\ UNCHANGED pipeVars

\* settings of the Shadow Conv control: 0, below and at the 0.01 of the test, above it
ShadowGrid == {0, ONE \div 200, ONE \div 100, ONE \div 2, ONE, 3 * ONE}

\* settings of the Grip control
GripGrid == {0, ONE \div 2, ONE}

\* anchor-subtracted RGB pixels: black, dim, coloured, white
GripPixels == {<<0, 0, 0>>, <<ONE \div 100, ONE \div 50, ONE \div 100>>,
               <<ONE \div 2, ONE \div 4, (3 * ONE) \div 4>>, <<ONE, ONE, ONE>>}

\* the Hybrid Logic of the RGB stretch loop for one pixel
EvalGrip ==
    /\ fn = "none"
    /\ \E pre \in GripPixels, grip \in GripGrid, shadow \in ShadowGrid, logD \in {0, 2 * ONE} :
          LET p == [weights |-> Rec709, logD |-> logD, protectB |-> 6 * ONE,
                    convergence |-> 3 * ONE, colorGrip |-> grip,
                    shadowConvergence |-> shadow, addPedestal |-> FALSE]
          IN  /\ fnArgs' = [pre |-> pre, params |-> p]
              /\ fnOut' = [Lstr |-> LstrOf(pre, p),
                           vector |-> VectorRGB(pre, p, LstrOf(pre, p)),
                           scalar |-> ScalarRGB(pre, p),
                           currentGrip |-> CurrentGrip(grip, shadow, LstrOf(pre, p)),
                           final |-> FinalRGB(pre, p)]
    /\ fn' = "grip"
    /\ UNCHANGED pipeVars

\* the inputs of applyAdaptiveScaling: the images, and fully saturated ones
ScalingImages ==
    Images \cup {[w |-> 2, h |-> 1, nc |-> 1, px |-> <<<<ONE>>, <<ONE>>>>],
                 [w |-> 1, h |-> 1, nc |-> 3, px |-> <<<<ONE, ONE, ONE>>>>]}

\* applyAdaptiveScaling of either engine up to the expansion: floor, ceilings and
\* scale, and where the expansion puts the floor and the ceilings
EvalScalingStats ==
    /\ fn = "none"
    /\ \E im \in ScalingImages, standalone \in BOOLEAN :
          LET st == IF standalone THEN ScalingStatsStandalone(im, Rec709)
                    ELSE ScalingStats(im, Rec709)
          IN  /\ fnArgs' = [img |-> im, weights |-> Rec709, standalone |-> standalone]
              /\ fnOut' = [stats |-> st,
                           floorTo |-> ExpandSample(st.globalFloor, st),
                           softTo |-> ExpandSample(st.softCeil, st),
                           hardTo |-> ExpandSample(st.hardCeil, st)]
    /\ fn' = "scalingStats"
    /\ UNCHANGED pipeVars

\* samples around the threshold 0.98 and up to 1, one step apart, and coarser ones
\* over the rest of the range, below 0 and above 1 included
ClipSamples ==
    ((39 * ONE) \div 40 .. (41 * ONE) \div 40)
      \cup {(k * ONE) \div 8 : k \in (0 - 2)..12}

\* applySoftClip(img, 0.98, 2.0) on a sample and on the next larger one
EvalSoftClip ==
    /\ fn = "none"
    /\ \E val \in ClipSamples :
          /\ fnArgs' = [val |-> val, next |-> val + 1, threshold |-> ContrastTarget,
                        rolloff |-> 2 * ONE]
          /\ fnOut' = [val |-> SoftClipSample(val, ContrastTarget, 2 * ONE),
                       next |-> SoftClipSample(val + 1, ContrastTarget, 2 * ONE)]
    /\ fn' = "applySoftClip"
    /\ UNCHANGED pipeVars

\* solveLogD taken one iteration at a time.  A call: lines 277-278.
SolveLogDCall ==
    /\ fn = "none"
    /\ \E medianIn \in {0 - FINE \div 100, 0, FINE \div 1000, FINE \div 5, FINE \div 2},
          targetMedian \in {FINE \div 10, FINE \div 5, FINE \div 2, (9 * FINE) \div 10} :
          /\ fnArgs' = [medianIn |-> medianIn, targetMedian |-> targetMedian,
                        bVal |-> 6 * FINE]
          /\ fnOut' = [pc |-> IF medianIn <= 0 THEN "returned" ELSE "loop",
                       lowLog |-> 0, highLog |-> 7 * FINE, bestLogD |-> 2 * FINE,
                       iter |-> 0, tested |-> <<>>]
    /\ fn' = "solveLogD:steps"
    /\ UNCHANGED pipeVars

\* One pass of the loop of lines 279-286, or its end at iter = 40, and the return
\* of line 287.  tested keeps the last midpoint and its stretch.
SolveLogDStep ==
    /\ fn = "solveLogD:steps" /\ fnOut.pc = "loop"
    /\ LET midLog == (fnOut.lowLog + fnOut.highLog) \div 2
           testVal == hyperbolicStretchPow10(fnArgs.medianIn, midLog, fnArgs.bVal)
           kept == Narrow(fnOut.lowLog, fnOut.highLog, midLog, testVal, fnArgs.targetMedian)
       IN  fnOut' =
             IF fnOut.iter >= MaxIter THEN [fnOut EXCEPT !.pc = "returned"]
             ELSE IF SolveHit(testVal, fnArgs.targetMedian)
                  THEN [fnOut EXCEPT !.pc = "returned", !.bestLogD = midLog,
                                     !.tested = <<midLog, testVal>>]
                  ELSE [fnOut EXCEPT !.lowLog = kept[1], !.highLog = kept[2],
                                     !.iter = @ + 1, !.tested = <<midLog, testVal>>]
    /\ UNCHANGED <<fn, fnArgs>>
    /\ UNCHANGED pipeVars

\* SENSOR_PROFILES: the equal weights of the last three profiles
EqualWeights == <<(3333 * ONE) \div 10000, (3333 * ONE) \div 10000, (3333 * ONE) \div 10000>>

\* RGB images with neutral pixels: dark and mid grey, grey beside a coloured pixel
NeutralImages ==
    {[w |-> Len(f), h |-> 1, nc |-> 3, px |-> f] :
        f \in {<<<<ONE \div 4, ONE \div 4, ONE \div 4>>>>,
               <<<<ONE \div 40, ONE \div 40, ONE \div 40>>, <<ONE \div 2, ONE \div 2, ONE \div 2>>>>,
               <<<<ONE \div 4, ONE \div 4, ONE \div 4>>, <<ONE \div 2, ONE \div 4, (3 * ONE) \div 4>>>>,
               <<<<ONE \div 40, ONE \div 8, ONE \div 4>>, <<ONE, ONE, ONE>>>>}}

\* the params the neutral images are processed with
NeutralParams ==
    {q \in [weights : {Rec709, EqualWeights}, logD : {2 * ONE}, protectB : {6 * ONE},
            convergence : {ONE, 3 * ONE}, colorGrip : {ONE, ONE \div 2},
            shadowConvergence : {0, ONE}, adaptive : BOOLEAN,
            processingMode : {"scientific", "ready_to_use"}, targetBg : {ONE \div 5},
            addPedestal : BOOLEAN] : TRUE}

\* processVeraLux on an image with neutral pixels
EvalNeutral ==
    /\ fn = "none"
    /\ \E im \in NeutralImages, p \in NeutralParams :
          /\ fnArgs' = [img |-> im, params |-> p]
          /\ fnOut' = processVeraLux(im, p)
    /\ fn' = "neutral"
    /\ UNCHANGED pipeVars

\* ---- The dialogs while processVeraLux runs ----

\* the deepest nesting of handlers that is followed
MaxNesting == 2

\* the handler on top of the call stack
TopRun == fnOut.runs[Len(fnOut.runs)]

\* a click is dispatched when the dialog is idle in its event loop, or inside a
\* processEvents() call of a running stretch loop
Dispatching ==
    /\ fn = "dialog" /\ fnOut.open
    /\ IF fnOut.runs = <<>> THEN TRUE ELSE TopRun.at = "processEvents"

\* the percent the row loop compares with lastPct
LoopPct(engine, h, row) == IF engine = "suite" THEN RowPct(h, row) ELSE BarPct(h, row)

\* dialog.execute(): the dialog is shown with an active image of h rows
DialogExecute ==
    /\ fn = "none"
    /\ \E engine \in {"suite", "standalone"}, h \in 1..3 :
          fnArgs' = [engine |-> engine, h |-> h]
    /\ fnOut' = [open |-> TRUE, runs |-> <<>>, enabled |-> TRUE, overlapped |-> 0,
                 reenabled |-> "never"]
    /\ fn' = "dialog"
    /\ UNCHANGED pipeVars

\* PROCESS STRETCH (runStretchProcess, lines 1794-1819) or the standalone PROCESS
\* (btnProcess.onClick, lines 2650-2678) is clicked: the handler runs up to the
\* row loop of processVeraLux, which it calls with a callback.  The standalone
\* handler first disables PROCESS, Default Settings and Auto-Calculate.
BtnProcessClick ==
    /\ Dispatching /\ fnOut.enabled
    /\ Len(fnOut.runs) < MaxNesting
    /\ fnOut.runs # <<>> => fnOut.overlapped < MaxNesting
    /\ fnOut' = [fnOut EXCEPT
                    !.runs = Append(@, [row |-> 0, lastPct |-> 0, at |-> "loop"]),
                    !.enabled = (fnArgs.engine = "suite"),
                    !.overlapped = IF fnOut.runs = <<>> THEN @ ELSE @ + 1]
    /\ UNCHANGED <<fn, fnArgs>>
    /\ UNCHANGED pipeVars

\* AUTO-CALC (runSmartSolver of the Suite, runAutoSolver of the standalone dialog)
\* is clicked: the handler runs to its end
BtnAutoClick ==
    /\ Dispatching /\ fnOut.enabled
    /\ fnOut.runs # <<>> /\ fnOut.overlapped < MaxNesting
    /\ fnOut' = [fnOut EXCEPT !.overlapped = @ + 1]
    /\ UNCHANGED <<fn, fnArgs>>
    /\ UNCHANGED pipeVars

\* one row of the stretch loop (Suite lines 523-529, standalone 2202-2208): when
\* the percent differs from lastPct the loop stores it and calls processEvents()
StretchRow ==
    /\ fn = "dialog" /\ fnOut.runs # <<>> /\ TopRun.at = "loop" /\ TopRun.row < fnArgs.h
    /\ LET pct == LoopPct(fnArgs.engine, fnArgs.h, TopRun.row)
       IN  fnOut' = [fnOut EXCEPT !.runs[Len(fnOut.runs)] =
                        IF pct # TopRun.lastPct
                        THEN [row |-> TopRun.row, lastPct |-> pct, at |-> "processEvents"]
                        ELSE [row |-> TopRun.row + 1, lastPct |-> TopRun.lastPct,
                              at |-> "loop"]]
    /\ UNCHANGED <<fn, fnArgs>>
    /\ UNCHANGED pipeVars

\* processEvents() returns and the row is stretched
ProcessEventsReturn ==
    /\ fn = "dialog" /\ fnOut.runs # <<>> /\ TopRun.at = "processEvents"
    /\ fnOut' = [fnOut EXCEPT !.runs[Len(fnOut.runs)] =
                    [row |-> TopRun.row + 1, lastPct |-> TopRun.lastPct, at |-> "loop"]]
    /\ UNCHANGED <<fn, fnArgs>>
    /\ UNCHANGED pipeVars

\* processVeraLux returns and the handler ends: the Suite assigns the result to the
\* view (lines 1821-1828), the standalone dialog shows it and closes with dlg.ok()
\* (lines 2679-2686)
ProcessReturns ==
    /\ fn = "dialog" /\ fnOut.runs # <<>> /\ TopRun.at = "loop" /\ TopRun.row >= fnArgs.h
    /\ fnOut' = [fnOut EXCEPT !.runs = SubSeq(@, 1, Len(@) - 1),
                              !.open = (fnArgs.engine = "suite")]
    /\ UNCHANGED <<fn, fnArgs>>
    /\ UNCHANGED pipeVars

\* processing throws: the handler's catch shows the error (Suite lines 1830-1832);
\* the standalone catch also enables the three buttons again (lines 2688-2693)
ProcessThrows ==
    /\ fn = "dialog" /\ fnOut.runs # <<>> /\ TopRun.at = "loop"
    /\ fnOut' = [fnOut EXCEPT !.runs = SubSeq(@, 1, Len(@) - 1),
                              !.enabled = TRUE,
                              !.reenabled = IF fnArgs.engine = "standalone" THEN "catch"
                                            ELSE @]
    /\ UNCHANGED <<fn, fnArgs>>
    /\ UNCHANGED pipeVars

NextFn ==
    \/ EvalCompose \/ EvalPercentile \/ EvalStride \/ EvalAnchorAdaptive \/ EvalStretch
    \/ EvalOutOfRange \/ EvalCeilings \/ EvalEngines \/ EvalSolveM \/ EvalAdaptiveScaling
    \/ EvalSolveLogD \/ EvalColourParams \/ EvalProgress
    \/ SmartSolverStart \/ SmartSolverIterate \/ EvalGrip
    \/ EvalScalingStats \/ EvalSoftClip \/ SolveLogDCall \/ SolveLogDStep
    \/ EvalNeutral
    \/ DialogExecute \/ BtnProcessClick \/ BtnAutoClick \/ StretchRow
    \/ ProcessEventsReturn \/ ProcessReturns \/ ProcessThrows

SpecFn == Init /\ [][NextFn]_vars

-----------------------------------------------------------------------------
(* Properties of the pipeline (under Spec) *)

\* the image a finished call has returned
Returned == pc = "done" /\ err = "none" /\ result # 0

\* every sample of image id lies in [0,1]
InUnitRange(id) ==
    \A i \in 1..Len(heap[id].px) : \A c \in 1..heap[id].nc :
        heap[id].px[i][c] >= 0 /\ heap[id].px[i][c] <= ONE

\* some sample of the images handed to the call lies below 0, and some above 1
InputOutsideUnitRange ==
    /\ \E id \in argIds : \E i \in 1..Len(orig[id].px) : \E c \in 1..orig[id].nc :
          orig[id].px[i][c] < 0
    /\ \E id \in argIds : \E i \in 1..Len(orig[id].px) : \E c \in 1..orig[id].nc :
          orig[id].px[i][c] > ONE

C2_ComposeRaisesOnlyOnMismatch ==
    (op = "composeStarImages" /\ pc = "done") =>
        IF orig[1].w # orig[2].w \/ orig[1].h # orig[2].h
        THEN /\ err = "DimensionMismatch" /\ result = 0
             /\ Len(heap) = 2 /\ heap[1] = orig[1] /\ heap[2] = orig[2]
        ELSE /\ err = "none" /\ result \in 3..Len(heap)
             /\ heap[result].w = orig[2].w /\ heap[result].h = orig[2].h

\* the stages of a star-pipeline run that are not part of processVeraLux
StarStages ==
    {"star:calculateAnchorAdaptive", "applyLSR", "applyOpticalHealing",
     "applyStarReduction", "star:applySoftClip"}

IsPrefix(a, b) == Len(a) <= Len(b) /\ \A i \in 1..Len(a) : a[i] = b[i]

Repeat(n, e) == [i \in 1..n |-> e]

InProcessVeraLux == pc \in {"pv_loop", "pv_polish", "pv_return"}

AfterProcessVeraLux == pc \in {"sp_lsr", "sp_healing", "sp_reduction", "sp_polish", "done"}

\* the stages of the processVeraLux run in progress (or finished), in order
PVTrace == SelectSeq(trace, LAMBDA e : e \notin StarStages)

\* the stages a complete processVeraLux run consists of
PVStages ==
    <<IF sp.adaptive THEN "calculateAnchorAdaptive" ELSE "calculateAnchorStats">>
      \o Repeat(heap[img].h, "stretchRow")
      \o (IF sp.processingMode = "ready_to_use"
          THEN <<"applyAdaptiveScaling", "applySoftClip">> ELSE <<>>)

\* what reached the stretch so far is each sample of the rows done, minus the anchor,
\* floored at 0
StretchedIsAnchored ==
    /\ Len(stretched) = y * heap[img].w
    /\ \A i \in 1..Len(stretched) : \A c \in 1..heap[img].nc :
          stretched[i][c] = (IF heap[img].px[i][c] - anchor > 0
                             THEN heap[img].px[i][c] - anchor ELSE 0)

\* C3: in every processVeraLux run the anchor is computed exactly once before any
\* pixel is stretched, every sample has that anchor subtracted and is floored at 0
\* before the stretch, and applyAdaptiveScaling then applySoftClip(0.98, 2.0) run,
\* after the whole stretch loop, if and only if processingMode is "ready_to_use".
C3_StretchOrder ==
    (InProcessVeraLux \/ (AfterProcessVeraLux /\ op # "composeStarImages")) =>
        /\ IsPrefix(PVTrace, PVStages)
        /\ StretchedIsAnchored
        /\ (pc # "pv_loop" /\ pc # "pv_polish") => PVTrace = PVStages
        /\ pc = "pv_return" =>
              heap[result].px = SoftClipPx(heap[result - 1], (98 * ONE) \div 100, 2 * ONE)

\* C3 witness: a ready_to_use run over two rows, with an anchor above 0, has finished
C3_Witness ==
    /\ op = "processVeraLux" /\ pc = "done"
    /\ sp.processingMode = "ready_to_use" /\ heap[img].h = 2 /\ anchor > 0
    /\ PVTrace = PVStages

\* the stages of a star-pipeline run other than the anchor estimates and the range
\* expansion
StarTrace ==
    SelectSeq(trace, LAMBDA e : e \notin {"calculateAnchorAdaptive", "calculateAnchorStats",
                                          "applyAdaptiveScaling"})

\* the anchor estimate of processStarPipeline itself, if any
StarAnchorStage ==
    IF params.adaptive THEN <<"star:calculateAnchorAdaptive">> ELSE <<>>

\* the surgery stages a complete star-pipeline run consists of, after the stretch
SurgeryStages ==
    (IF params.lsr > 0 THEN <<"applyLSR">> ELSE <<>>)
      \o (IF params.healing > 0 THEN <<"applyOpticalHealing">> ELSE <<>>)
      \o (IF params.reduction > 0 THEN <<"applyStarReduction">> ELSE <<>>)
      \o <<"star:applySoftClip">>

StarPipelineStages ==
    StarAnchorStage \o Repeat(heap[img].h, "stretchRow") \o SurgeryStages

\* C4: in processStarPipeline the surgery filters run only after the stretch has
\* completed, in the order LSR, Optical Healing, Star Reduction, each if and only if
\* its parameter is > 0, and applySoftClip runs exactly once, as the last stage.
C4_SurgeryOrder ==
    (op = "processStarPipeline" /\ (InProcessVeraLux \/ AfterProcessVeraLux)) =>
        /\ IsPrefix(StarTrace, StarPipelineStages)
        /\ pc = "done" => StarTrace = StarPipelineStages
        /\ pc = "sp_lsr" => StarTrace = StarAnchorStage \o Repeat(heap[img].h, "stretchRow")

\* C4 witness: a star-pipeline run with LSR and Star Reduction enabled and Optical
\* Healing disabled has returned
C4_Witness ==
    /\ op = "processStarPipeline" /\ pc = "done"
    /\ params.lsr > 0 /\ params.healing = 0 /\ params.reduction > 0
    /\ StarTrace = StarPipelineStages

\* no anchor estimate has been computed
NoAnchorEstimate ==
    \A i \in 1..Len(trace) :
        trace[i] \notin {"calculateAnchorAdaptive", "calculateAnchorStats",
                         "star:calculateAnchorAdaptive"}

\* what reached the stretch is each star-mask sample minus a (within [0,1])
StretchedIsMaskMinus(a) ==
    /\ Len(stretched) = Len(orig[1].px)
    /\ \A i \in 1..Len(stretched) : \A c \in 1..orig[1].nc :
          stretched[i][c] = Clamp01(orig[1].px[i][c] - a)

\* C5 as stated: with params.adaptive false no anchor estimate is computed and every
\* star-mask sample reaches the stretch with nothing subtracted; with params.adaptive
\* true exactly one anchor, the adaptive one, is subtracted before the stretch.
C5_StarAnchorOptional ==
    (op = "processStarPipeline" /\ AfterProcessVeraLux) =>
        IF params.adaptive
        THEN StretchedIsMaskMinus(starAnchor)
        ELSE NoAnchorEstimate /\ StretchedIsMaskMinus(0)

\* C6: processStarPipeline always runs the stretch with the pedestal disabled and
\* processingMode "scientific", whatever the caller's params hold: adaptive range
\* expansion never runs, and a star-mask pixel whose channels are all 0 is 0 in every
\* channel of the stretch stage's output.
C6_StarStretchForced ==
    (op = "processStarPipeline" /\ (InProcessVeraLux \/ AfterProcessVeraLux)) =>
        /\ "addPedestal" \in DOMAIN sp /\ sp.addPedestal = FALSE
        /\ sp.processingMode = "scientific"
        /\ \A i \in 1..Len(trace) : trace[i] # "applyAdaptiveScaling"
        /\ pc = "sp_lsr" =>
              \A i \in 1..Len(orig[1].px) :
                  (\A c \in 1..orig[1].nc : orig[1].px[i][c] = 0)
                      => \A c \in 1..orig[1].nc : heap[result].px[i][c] = 0

\* C6 witness: the caller asked for ready_to_use and left the pedestal on, the mask
\* has an all-zero pixel and a lit one, and the stretch stage has finished
C6_Witness ==
    /\ op = "processStarPipeline" /\ pc = "sp_lsr"
    /\ params.processingMode = "ready_to_use" /\ "addPedestal" \notin DOMAIN params
    /\ \E i \in 1..Len(orig[1].px) : \A c \in 1..orig[1].nc : orig[1].px[i][c] = 0
    /\ \E i \in 1..Len(orig[1].px) : \E c \in 1..orig[1].nc : heap[result].px[i][c] > 0

\* C7: no core operation writes to an image it received as input: every image ever
\* handed to an operation still holds the samples it held then, and the image a
\* working stage returns is none of them.
C7_InputsUnchanged ==
    /\ \A id \in DOMAIN orig : heap[id] = orig[id]
    /\ result # 0 => result \notin DOMAIN orig

\* C7 witness: a star-pipeline run with an adaptive anchor and all three filters
\* enabled has returned, its output differing from the mask it was given
C7_Witness ==
    /\ op = "processStarPipeline" /\ Returned
    /\ params.adaptive /\ params.lsr > 0 /\ params.healing > 0 /\ params.reduction > 0
    /\ heap[result].px # orig[1].px /\ Cardinality(DOMAIN orig) >= 5

-----------------------------------------------------------------------------
(* Properties of the pure functions (under SpecFn) *)

InUnit(v) == v >= 0 /\ v <= ONE

\* C8: for base and star samples in [0,1], Screen yields a value in [base, 1] that is
\* non-decreasing in star, and LinearAdd yields base+star when base+star <= 1 and
\* exactly 1 when base+star > 1.
C8_ComposeOnUnitRange ==
    (fn = "compose" /\ InUnit(fnArgs.base) /\ InUnit(fnArgs.s1) /\ InUnit(fnArgs.s2)) =>
        IF fnArgs.useScreen
        THEN /\ fnOut.o1 >= fnArgs.base /\ fnOut.o1 <= ONE
             /\ fnArgs.s1 <= fnArgs.s2 => fnOut.o1 <= fnOut.o2
        ELSE fnOut.o1 = (IF fnArgs.base + fnArgs.s1 <= ONE
                         THEN fnArgs.base + fnArgs.s1 ELSE ONE)

\* C8 witness: Screen on a base strictly inside (0,1) and two stars in [0,1], the
\* larger star giving the strictly larger output
C8_Witness ==
    /\ fn = "compose" /\ fnArgs.useScreen
    /\ fnArgs.base > 0 /\ fnArgs.base < ONE /\ InUnit(fnArgs.s1) /\ InUnit(fnArgs.s2)
    /\ fnArgs.s1 < fnArgs.s2 /\ fnOut.o1 < fnOut.o2

\* C9 as stated: Screen composition is bounded by 1 and non-decreasing in the star
\* sample for every fixed base, also for base or star samples outside [0,1].
C9_ScreenMonotoneAnywhere ==
    (fn = "compose" /\ fnArgs.useScreen) =>
        /\ fnOut.o1 <= ONE /\ fnOut.o2 <= ONE
        /\ fnArgs.s1 <= fnArgs.s2 => fnOut.o1 <= fnOut.o2

\* C9, amended: Screen composition is bounded by 1 for all inputs; it is
\* non-decreasing in the star sample (of any magnitude) for every fixed base <= 1,
\* and non-increasing in it for every fixed base >= 1.
C9_ScreenMonotoneBaseAtMostOne ==
    (fn = "compose" /\ fnArgs.useScreen) =>
        /\ fnOut.o1 <= ONE /\ fnOut.o2 <= ONE
        /\ (fnArgs.base <= ONE /\ fnArgs.s1 <= fnArgs.s2) => fnOut.o1 <= fnOut.o2
        /\ (fnArgs.base >= ONE /\ fnArgs.s1 <= fnArgs.s2) => fnOut.o1 >= fnOut.o2

\* C9 witness: Screen on a base inside (0,1), a star below 0 and a star above 1, the
\* larger star giving the strictly larger output
C9_Witness ==
    /\ fn = "compose" /\ fnArgs.useScreen
    /\ fnArgs.base > 0 /\ fnArgs.base < ONE /\ fnArgs.s1 < 0 /\ fnArgs.s2 > ONE
    /\ fnOut.o1 < fnOut.o2 /\ fnOut.o2 <= ONE

\* C10 as stated: percentile returns 0 for an empty array, for every p, in both engine
\* variants; it never returns undefined or NaN.
C10_PercentileEmptyIsZero ==
    (fn = "percentile" /\ Len(fnArgs.arr) = 0) => fnOut.value = 0

\* C11 as stated: percentile sorts a copy: after percentile(samples, p) returns, the
\* caller's array holds the same elements in the same order as before the call.
C11_PercentileKeepsCallerArray ==
    fn = "percentile" => fnOut.arr = fnArgs.arr

\* C12 as stated: for every image size the strided subsample visits at most budget
\* pixels (500000 in calculateAnchorStats and applyAdaptiveScaling, 2000000 in
\* calculateAnchorAdaptive).
C12_StrideWithinBudget ==
    fn = "stride" => fnOut.visits <= fnArgs.budget

\* C12, amended: the strided subsample visits ceil(totalPixels / step) pixels, which
\* is every pixel while totalPixels < 2 * budget and always fewer than 2 * budget;
\* it is at most budget when totalPixels <= budget.
C12_StrideBelowTwiceBudget ==
    fn = "stride" =>
        /\ fnOut.visits < 2 * fnArgs.budget
        /\ fnArgs.totalPixels < 2 * fnArgs.budget => fnOut.visits = fnArgs.totalPixels
        /\ (fnOut.visits - 1) * fnOut.step < fnArgs.totalPixels
        /\ fnOut.visits * fnOut.step >= fnArgs.totalPixels

\* C12 witness: an image of more than twice the budget, sampled with a step above 1,
\* on which more than budget pixels are visited
C12_Witness ==
    /\ fn = "stride" /\ fnArgs.totalPixels > 2 * fnArgs.budget
    /\ fnOut.step > 1 /\ fnOut.visits > fnArgs.budget

\* the walk back of calculateAnchorAdaptive found no bin: its anchor is <= 0
WalkBackFailed == fn = "calculateAnchorAdaptive" /\ fnOut.anchorIdx <= 0

\* C13 as stated: when the walk back yields an anchor <= 0, calculateAnchorAdaptive
\* returns the 50th percentile (median) of the sampled values, floored at 0.
C13_FallbackIsMedian ==
    WalkBackFailed =>
        fnOut.anchor = (IF percentile(fnOut.samples, 5000) > 0
                        THEN percentile(fnOut.samples, 5000) ELSE 0)

\* C13, amended: when the walk back yields an anchor <= 0, calculateAnchorAdaptive
\* returns the 0.5th percentile of the sampled values, floored at 0.
C13_FallbackIsHalfPercentile ==
    WalkBackFailed =>
        fnOut.anchor = (IF percentile(fnOut.samples, 50) > 0
                        THEN percentile(fnOut.samples, 50) ELSE 0)

\* C13 witness: the walk back failed on samples whose 0.5th percentile is above 0 and
\* below their median
C13_Witness ==
    /\ WalkBackFailed
    /\ percentile(fnOut.samples, 50) > 0
    /\ percentile(fnOut.samples, 50) < percentile(fnOut.samples, 5000)
    /\ fnOut.anchor > 0

\* C14 as stated: hyperbolicStretch(SP, D, b, SP) = 0 and hyperbolicStretch(1, D, b, SP)
\* = 1 for every D and b (also below 0.1) and every SP in [0,1].
C14_StretchEndpoints ==
    fn = "hyperbolicStretch" => fnOut.atSP = 0 /\ fnOut.atOne = ONE

\* C14, amended: hyperbolicStretch(SP, D, b, SP) = 0 for every D, b and every SP in
\* [0,1]; hyperbolicStretch(1, D, b, SP) = 1 for every SP in [0,1), and 0 for SP = 1.
C14_StretchEndpointsBelowOne ==
    fn = "hyperbolicStretch" =>
        /\ fnOut.atSP = 0
        /\ fnArgs.SP < ONE => fnOut.atOne = ONE
        /\ fnArgs.SP = ONE => fnOut.atOne = 0

\* C14 witness: D and b below the floor 0.1 and a symmetry point strictly inside (0,1)
C14_Witness ==
    /\ fn = "hyperbolicStretch"
    /\ fnArgs.D < ONE \div 10 /\ fnArgs.b < ONE \div 10
    /\ fnArgs.SP > 0 /\ fnArgs.SP < ONE
    /\ fnOut.atSP = 0 /\ fnOut.atOne = ONE

\* the target can be reached with a logD in [0,7]
Attainable == fnOut.atLow <= fnArgs.targetMedian /\ fnArgs.targetMedian <= fnOut.atHigh

\* C15: for medianIn and targetMedian in (0,1) and bVal in [0.1,15], when the target
\* can be reached with a logD in [0,7], the stretch of medianIn with D = 10^solveLogD
\* is within 0.001 of targetMedian
C15_SolveLogDRoundTrip ==
    fn = "solveLogD" /\ Attainable =>
        Abs(fnOut.stretched - fnArgs.targetMedian) <= FINE \div 1000

C15_Witness ==
    /\ fn = "solveLogD" /\ Attainable /\ fnOut.logD > 4 * FINE
    /\ fnOut.stretched # fnArgs.targetMedian

\* C16: processVeraLux with logD, protectB, convergence, colorGrip or shadowConvergence
\* outside its range returns the image it returns when that parameter is first
\* clamped to the nearest bound of the range
C16_OutOfRangeIsClamped ==
    fn = "outOfRange" => fnOut.given = fnOut.bounded

\* a finished run of processVeraLux on a uniform mono image of 0.25 in scientific
\* mode with the statistical anchor, logD = 2.0, protectB = 6.0 and the pedestal on
UniformQuarterRun ==
    /\ Returned /\ op = "processVeraLux"
    /\ orig[1].nc = 1 /\ \A i \in 1..Len(orig[1].px) : orig[1].px[i] = <<ONE \div 4>>
    /\ ~IsReadyToUse(params) /\ ~IsAdaptive(params) /\ AddPedestal(params)
    /\ params.logD = 2 * ONE /\ params.protectB = 6 * ONE

\* every sample of the returned image is the pedestal-lifted stretch of v
OutputIsStretchOf(v) ==
    \A i \in 1..Len(heap[result].px) :
        Abs(heap[result].px[i][1]
            - Clamp01(MulFP(hyperbolicStretch(v, 100 * ONE, 6 * ONE, 0), ONE - pedestal)
                      + pedestal)) <= 1

\* C17 as stated: on the uniform 0.25 image the anchor is near zero and every output
\* sample is clamp01(hyperbolicStretch(0.25, 100, 6.0, 0) * (1 - 0.005) + 0.005)
C17_UniformStretchOfInput ==
    UniformQuarterRun => anchor <= ONE \div 100 /\ OutputIsStretchOf(ONE \div 4)

\* C17: on the uniform 0.25 image the statistical anchor is 0.25 less the safety
\* margin 0.00025, and every output sample is
\* clamp01(hyperbolicStretch(0.00025, 100, 6.0, 0) * (1 - 0.005) + 0.005)
C17_UniformStretchOfMargin ==
    UniformQuarterRun =>
        anchor = ONE \div 4 - AnchorMargin /\ OutputIsStretchOf(AnchorMargin)

C17_Witness == UniformQuarterRun /\ Len(heap[result].px) = MaxPix

\* the largest of the three channels' p-th percentiles of the image handed to the
\* harness
MaxOverChannels(p) ==
    LET ch == [c \in 1..3 |-> SortAsc([i \in 1..Len(fnArgs.img.px) |-> fnArgs.img.px[i][c]])]
    IN Max(Interpolate(ch[1], p), Max(Interpolate(ch[2], p), Interpolate(ch[3], p)))

\* softCeil and hardCeil are the 99th and 99.99th percentile of the luminance samples
FromLuma(ceilings) ==
    /\ ceilings.soft = Interpolate(SortAsc(fnOut.luma), 9900)
    /\ ceilings.hard = Interpolate(SortAsc(fnOut.luma), 9999)

\* softCeil and hardCeil are the largest per-channel 99th and 99.99th percentile
FromChannels(ceilings) ==
    ceilings.soft = MaxOverChannels(9900) /\ ceilings.hard = MaxOverChannels(9999)

\* C18: for RGB the Suite's applyAdaptiveScaling takes softCeil and hardCeil as the
\* maximum over the channels of the per-channel 99th and 99.99th percentile, the
\* standalone engine takes both from the luminance samples; for mono both engines
\* take them from the single channel
C18_SuiteCeilingsPerChannel ==
    fn = "ceilings" =>
        IF fnArgs.img.nc = 3
        THEN FromChannels(fnOut.suite) /\ FromLuma(fnOut.standalone)
        ELSE FromLuma(fnOut.suite) /\ FromLuma(fnOut.standalone)

\* C19: with adaptive off, shadowConvergence 0 and addPedestal unset the Suite's
\* processVeraLux returns the image the standalone processVeraLux returns, in both
\* modes, with the same globalFloor, softCeil, hardCeil and finalScale
C19_EnginesAgree ==
    fn = "engines" =>
        fnOut.suite = fnOut.standalone /\ fnOut.suiteStats = fnOut.standaloneStats

UnifiedColour(val) ==
    IF val < 0 THEN [colorGrip |-> ONE, shadowConvergence |-> (3 * ONE * (0 - val)) \div 100]
    ELSE IF val > 0 THEN [colorGrip |-> ONE - (6 * ONE * val) \div 1000, shadowConvergence |-> 0]
    ELSE [colorGrip |-> ONE, shadowConvergence |-> 0]

\* C21: in Ready-to-Use mode the slider value alone determines colorGrip and
\* shadowConvergence, alike for PROCESS STRETCH, Preview Refresh and the full
\* preview, whatever the hidden Grip and Shadow Conv controls hold
C21_UnifiedAloneDecides ==
    fn = "colourParams" /\ fnArgs.radReady =>
        /\ fnOut.runStretchProcess = UnifiedColour(fnArgs.ncUnified)
        /\ fnOut.processPreviewFast = UnifiedColour(fnArgs.ncUnified)
        /\ fnOut.processPreview = UnifiedColour(fnArgs.ncUnified)

-----------------------------------------------------------------------------
(* C22: progress messages *)

RowPercents(ms) == SelectSeq(ms, LAMBDA m : m.msg = "Stretching: %")

StrictlyIncreasing(ms) == \A i, j \in 1..Len(ms) : i < j => ms[i].pct < ms[j].pct

\* the row messages of ms lie after the start-of-stretch message and before the
\* post-stretch messages, and "Complete!" closes the run
WellOrdered(ms, start) ==
    /\ ms[Len(ms)].msg = "Complete!"
    /\ \A i, j \in 1..Len(ms) :
          /\ (ms[i].msg = start /\ ms[j].msg = "Stretching: %") => i < j
          /\ (ms[i].msg = "Stretching: %"
                /\ ms[j].msg \in {"Adaptive Scaling...", "Soft-clip Polish..."}) => i < j

\* C22: in a run with a progress callback each percent of rows is reported at
\* most once and the reported percents strictly increase, the row reports lie
\* between the start of the stretch and the post-stretch phases, "Complete!" is
\* the last message, and the image returned is the one a run without callback
\* returns; in the Suite engine and in the standalone engine.
C22_PercentsOnceAndOrdered ==
    (fn = "progress" /\ fnArgs.progressCallback) =>
        /\ StrictlyIncreasing(RowPercents(fnOut.messages))
        /\ StrictlyIncreasing(RowPercents(fnOut.standalone))
        /\ WellOrdered(fnOut.messages, "Stretching...")
        /\ WellOrdered(fnOut.standalone, "Starting Stretch...")
        /\ fnOut.result = processVeraLux(fnArgs.img, fnArgs.params)
        /\ fnOut.resultStandalone = processVeraLuxStandalone(fnArgs.img, fnArgs.params)

-----------------------------------------------------------------------------
(* C23: the Smart Solver *)

\* C23: the Smart Solver ends after at most 15 calls of solveLogD (one call in
\* Scientific mode); it lowers the working target by 0.015 only after a pass
\* whose simulated floor max(min, median - 2.7 stddev) exceeds 0.001, goes on
\* only while the floor exceeds 0.001 and the lowered target is at least 0.05,
\* and sets Log D to the result of the last call; with no sample above 1e-7
\* it sets Log D to 2.0 without a call.
C23_SmartSolverBounded ==
    fn = "smartSolver" =>
        LET n == Len(fnOut.results)
            bVal == fnArgs.ncProtect
            medianIn == percentileF(fnArgs.samples, 5000)
        IN  /\ n <= 15 /\ Len(fnOut.targets) = n
            /\ fnOut.iter < 15
            /\ (fnOut.pc = "loop") => n = fnOut.iter
            /\ (fnOut.pc = "done" /\ ~fnArgs.radReady /\ Len(fnArgs.samples) > 0) => n = 1
            /\ \A i \in 1..n :
                  /\ fnOut.targets[i] = fnArgs.ncTarget - (i - 1) * 15000
                  /\ fnOut.results[i] = solveLogD(medianIn, fnOut.targets[i], bVal)
                  /\ (i < n \/ fnOut.pc = "loop") =>
                        /\ SimulatedFloor(fnArgs.samples, fnOut.results[i], bVal) > 1000
                        /\ fnOut.targets[i] - 15000 >= 50000
            /\ (fnOut.pc = "done" /\ n > 0) => fnOut.ncLogD = fnOut.results[n]
            /\ (Len(fnArgs.samples) = 0) =>
                  fnOut.pc = "done" /\ n = 0 /\ fnOut.ncLogD = 2 * FINE

\* the solver stopped because the floor became safe, after lowering the target
C23_Witness ==
    /\ fn = "smartSolver" /\ fnOut.pc = "done" /\ fnArgs.radReady
    /\ Len(fnOut.results) > 1
    /\ fnOut.floors[Len(fnOut.floors)] <= 1000

-----------------------------------------------------------------------------
(* C24: the blend weight of the Hybrid Logic *)

GripBounds ==
    /\ 0 <= fnOut.currentGrip /\ fnOut.currentGrip <= fnArgs.params.colorGrip
    /\ \A c \in 1..3 :
          fnOut.final[c] = MulFP(fnOut.vector[c], fnOut.currentGrip)
                             + MulFP(fnOut.scalar[c], ONE - fnOut.currentGrip)

\* C24 as stated: currentGrip = colorGrip * Lstr^shadowConvergence whenever
\* shadowConvergence > 0 (colorGrip otherwise), 0 <= currentGrip <= colorGrip,
\* the output is vector * currentGrip + scalar * (1 - currentGrip), and with
\* colorGrip = 1 and shadowConvergence = 0 it is the vector result.
C24_GripDampedAboveZero ==
    fn = "grip" =>
        /\ fnOut.currentGrip =
              IF fnArgs.params.shadowConvergence > 0
              THEN MulFP(fnArgs.params.colorGrip,
                         PowFP(fnOut.Lstr, fnArgs.params.shadowConvergence))
              ELSE fnArgs.params.colorGrip
        /\ GripBounds
        /\ (fnArgs.params.colorGrip = ONE /\ fnArgs.params.shadowConvergence = 0)
              => fnOut.final = fnOut.vector

\* C24, amended: currentGrip = colorGrip * Lstr^shadowConvergence whenever
\* shadowConvergence > 0.01 (colorGrip otherwise), 0 <= currentGrip <= colorGrip,
\* the output is vector * currentGrip + scalar * (1 - currentGrip), and with
\* colorGrip = 1 and shadowConvergence <= 0.01 it is the vector result.
C24_GripDampedAboveHundredth ==
    fn = "grip" =>
        /\ fnOut.currentGrip =
              IF fnArgs.params.shadowConvergence > ONE \div 100
              THEN MulFP(fnArgs.params.colorGrip,
                         PowFP(fnOut.Lstr, fnArgs.params.shadowConvergence))
              ELSE fnArgs.params.colorGrip
        /\ GripBounds
        /\ (fnArgs.params.colorGrip = ONE /\ fnArgs.params.shadowConvergence <= ONE \div 100)
              => fnOut.final = fnOut.vector

\* a coloured pixel with shadowConvergence at 0.01: the grip is not damped
C24_Witness ==
    /\ fn = "grip"
    /\ fnArgs.params.shadowConvergence = ONE \div 100
    /\ fnArgs.params.colorGrip = ONE \div 2
    /\ 0 < fnOut.Lstr /\ fnOut.Lstr < ONE
    /\ fnOut.currentGrip = ONE \div 2
    /\ fnOut.final # fnOut.vector

-----------------------------------------------------------------------------
(* C25: floor, ceilings and scale of applyAdaptiveScaling *)

\* C25: for every input image of applyAdaptiveScaling, in both engines,
\* globalFloor < softCeil < hardCeil where finalScale is computed, finalScale is
\* positive, and the expansion maps globalFloor to 0.001, softCeil to at most
\* 0.98 and hardCeil to at most 1.0.
C25_CeilingsOrdered ==
    fn = "scalingStats" =>
        /\ fnOut.stats.globalFloor < fnOut.stats.softCeil
        /\ fnOut.stats.softCeil < fnOut.stats.hardCeil
        /\ fnOut.stats.finalScale > 0
        /\ fnOut.floorTo = ONE \div 1000
        /\ fnOut.softTo <= (98 * ONE) \div 100
        /\ fnOut.hardTo <= ONE

\* a uniform image: both ceilings are nudged
C25_Witness ==
    /\ fn = "scalingStats"
    /\ \A i \in 1..Len(fnArgs.img.px) : fnArgs.img.px[i] = fnArgs.img.px[1]
    /\ Len(fnArgs.img.px) = 2
    /\ fnOut.stats.softCeil = fnOut.stats.globalFloor + 1
    /\ fnOut.stats.hardCeil = fnOut.stats.softCeil + 1

-----------------------------------------------------------------------------
(* C26: the soft clip *)

\* C26: applySoftClip(img, 0.98, 2.0) leaves every sample in [0, 0.98] unchanged,
\* maps a sample v in (0.98, 1] into [v, 1] with 1 mapped to 1, and never
\* decreases from a sample to a larger one, over the whole input range.
C26_SoftClipMonotone ==
    fn = "applySoftClip" =>
        /\ (0 <= fnArgs.val /\ fnArgs.val <= (98 * ONE) \div 100) => fnOut.val = fnArgs.val
        /\ ((98 * ONE) \div 100 < fnArgs.val /\ fnArgs.val <= ONE) =>
              fnArgs.val <= fnOut.val /\ fnOut.val <= ONE
        /\ fnArgs.val = ONE => fnOut.val = ONE
        /\ fnOut.val <= fnOut.next

\* a sample inside the roll-off is raised
C26_Witness ==
    /\ fn = "applySoftClip"
    /\ fnArgs.val = (99 * ONE) \div 100
    /\ fnOut.val > fnArgs.val /\ fnOut.val < ONE
    /\ fnOut.next >= fnOut.val

-----------------------------------------------------------------------------
(* C27: the bisection of solveLogD *)

\* C27: solveLogD takes at most 40 bisection steps and returns a value in [0,7]
\* that is the default 2.0 or a midpoint whose stretch of medianIn is within
\* 0.0001 of the target; with medianIn < 1e-9 it returns 2.0 without a stretch,
\* and when 40 steps do not meet the tolerance it returns 2.0, not the last
\* midpoint and not a bound.
C27_BisectionBounded ==
    fn = "solveLogD:steps" =>
        /\ fnOut.iter <= 40
        /\ 0 <= fnOut.bestLogD /\ fnOut.bestLogD <= 7 * FINE
        /\ fnOut.pc = "returned" =>
              /\ \/ fnOut.bestLogD = 2 * FINE
                 \/ /\ fnOut.tested # <<>> /\ fnOut.bestLogD = fnOut.tested[1]
                    /\ Abs(hyperbolicStretchPow10(fnArgs.medianIn, fnOut.bestLogD, fnArgs.bVal)
                             - fnArgs.targetMedian) < FINE \div 10000
              /\ fnArgs.medianIn <= 0 => fnOut.tested = <<>> /\ fnOut.bestLogD = 2 * FINE
              /\ (fnOut.iter = 40) =>
                    /\ fnOut.bestLogD = 2 * FINE
                    /\ fnOut.tested[1] # 2 * FINE
              /\ fnOut.bestLogD = solveLogD(fnArgs.medianIn, fnArgs.targetMedian, fnArgs.bVal)

\* forty steps did not meet the tolerance: 2.0 is returned, the last midpoint lies
\* at a bound
C27_Witness ==
    /\ fn = "solveLogD:steps" /\ fnOut.pc = "returned" /\ fnOut.iter = 40
    /\ fnOut.bestLogD = 2 * FINE
    /\ fnOut.tested[1] < FINE \div 1000

-----------------------------------------------------------------------------
(* C28: neutral pixels *)

Neutral(pixel) == pixel[1] = pixel[2] /\ pixel[2] = pixel[3]

\* C28: an RGB pixel with R = G = B comes out of processVeraLux with three equal
\* channels, for every anchor, weights, colorGrip, shadowConvergence, convergence
\* and pedestal setting, in scientific and in ready_to_use mode.
C28_NeutralStaysNeutral ==
    fn = "neutral" =>
        \A i \in 1..Len(fnArgs.img.px) :
            Neutral(fnArgs.img.px[i]) => Neutral(fnOut.px[i])

\* a grey pixel beside a coloured one, blended and run through the ready_to_use
\* stages, comes out grey and neither black nor white
C28_Witness ==
    /\ fn = "neutral" /\ fnArgs.params.processingMode = "ready_to_use"
    /\ fnArgs.params.colorGrip < ONE /\ fnArgs.params.shadowConvergence > 0
    /\ Len(fnArgs.img.px) = 2 /\ ~Neutral(fnArgs.img.px[2]) /\ ~Neutral(fnOut.px[2])
    /\ Neutral(fnArgs.img.px[1]) /\ Neutral(fnOut.px[1])
    /\ 0 < fnOut.px[1][1] /\ fnOut.px[1][1] < ONE

-----------------------------------------------------------------------------
(* C29: the channels composeStarImages reads *)

\* C29: composeStarImages never reads a channel the star layer does not have:
\* once the dimension check has passed without the mismatch error, every channel
\* c the loop samples (c below the base's channel count) is a channel of the
\* star layer.
C29_NoStrayChannelRead ==
    (op = "composeStarImages" /\ pc \in {"cs_loop", "done"} /\ err # "DimensionMismatch") =>
        \A c \in 1..heap[2].nc : c <= heap[1].nc

-----------------------------------------------------------------------------
(* C30: processing actions while a run is in progress *)

\* C30: while a processVeraLux run started from a dialog is in progress no second
\* processing action starts before the first returns, in the Suite dialog and in
\* the standalone dialog; the standalone dialog keeps PROCESS, Default Settings
\* and Auto-Calculate disabled for the whole run and enables them again only
\* when processing throws.
C30_OneRunAtATime ==
    fn = "dialog" =>
        /\ Len(fnOut.runs) <= 1 /\ fnOut.overlapped = 0
        /\ fnArgs.engine = "standalone" =>
              /\ fnOut.runs # <<>> => ~fnOut.enabled
              /\ (fnOut.enabled /\ ~fnOut.open) => fnOut.reenabled = "catch"

====
